---- MODULE Spec2Model ----
(***************************************************************************)
(* State-machine model of the dashboard's UI components and theme store:   *)
(* JsonViewer, Pagination, the zustand theme store, Drawer, the stat       *)
(* tables / charts and the ActivityHeatmap week bucketing.  Every          *)
(* component has its own variables and its own specification; while one    *)
(* component runs, the variables of the others stay at their idle values.  *)
(***************************************************************************)
EXTENDS Integers, Sequences, FiniteSets, TLC

VARIABLES
    \* JsonViewer (src/components/ui/JsonViewer.tsx)
    jsonData,          \* the `data` prop
    normalized,        \* useMemo: { kind, value }
    lines,             \* useMemo: parseJsonToLines(normalized.value)
    collapsedBlocks,   \* useState<Set<string>>
    lastToggled,       \* history: the block id of the last toggleFold call
    \* Pagination (src/components/ui/Pagination.tsx): its props
    current,
    total,
    pageSize,
    \* Theme store (stores/useThemeStore): state, browser and history
    theme,
    resolvedTheme,
    dataTheme,         \* document.documentElement's data-theme attribute
    prefersDark,       \* matchMedia('(prefers-color-scheme: dark)').matches
    hasMatchMedia,     \* window.matchMedia exists
    listeners,         \* 'change' listeners registered by initializeTheme
    storage,           \* localStorage[STORAGE_KEY_THEME]
    themeOp,           \* history: the last operation
    themeBefore,       \* history: theme, resolvedTheme, dataTheme before it
    cycleStart,        \* history: theme before a run of cycleTheme calls
    cycleCount,        \* history: length of that run, at most 3
    \* Drawer (src/components/ui/Drawer.tsx), one entry per instance
    mounted,
    open,              \* prop
    isVisible,         \* useState
    isClosing,         \* useState
    closeTimerRef,     \* useRef: a timer handle, or NullRef
    lockHeld,          \* the scroll-lock effect has run and not been cleaned up
    timers,            \* window.setTimeout callbacks that are pending
    microtasks,        \* queueMicrotask callbacks that are pending, in order
    activeDrawerCount, \* module variable
    drawerOpenClass,   \* body and html carry DRAWER_LOCK_CLASS
    lateFire,          \* history: the close timer at the last unmount, and after it
    userClose,         \* history: the user asked to close and onClose has not been called
    invoked,           \* history: the instance whose onClose the last step called, or NoDrawer
    \* Stat tables and charts (src/components/analytics)
    statComponent,     \* the component rendered last
    statProps,         \* its props
    statView,          \* the class names of the elements it returned
    \* ActivityHeatmap's weeks
    heatSource,        \* the file whose ActivityHeatmap rendered last
    heatData,          \* its data prop
    heatWest,          \* the host's time zone is behind UTC
    heatWeeks,         \* the weeks its useMemo returned
    heatObserving,     \* the ResizeObserver and the resize listener are attached
    heatWidth,         \* el.clientWidth of the heatmap container
    heatSmall,         \* matchMedia('(max-width: 640px)').matches
    cellSize,          \* useState
    cellGap,           \* useState
    burstEvents,       \* history: resize notifications of the burst under way
    burstRuns,         \* history: runs of updateSizing they caused
    \* ContentTransition
    transitionKey,     \* prop
    children,          \* prop
    ctGetOrder,        \* prop getOrder
    travel,            \* prop
    isAnimating,       \* useState
    transitionDirection, \* useState
    layers,            \* useState
    prevKeyRef,        \* useRef
    prevChildrenRef,   \* useRef
    ctMicrotasks,      \* the queueMicrotask callback that is pending, if any
    timeline           \* the gsap timeline of the layout effect: none, started, midway

jsonVars == <<jsonData, normalized, lines, collapsedBlocks, lastToggled>>

pageVars == <<current, total, pageSize>>

themeVars ==
    <<theme, resolvedTheme, dataTheme, prefersDark, hasMatchMedia, listeners, storage,
      themeOp, themeBefore, cycleStart, cycleCount>>

drawerVars ==
    <<mounted, open, isVisible, isClosing, closeTimerRef, lockHeld, timers,
      microtasks, activeDrawerCount, drawerOpenClass, lateFire, userClose, invoked>>

statVars == <<statComponent, statProps, statView>>

heatVars ==
    <<heatSource, heatData, heatWest, heatWeeks, heatObserving, heatWidth, heatSmall,
      cellSize, cellGap, burstEvents, burstRuns>>

transitionVars ==
    <<transitionKey, children, ctGetOrder, travel, isAnimating, transitionDirection, layers,
      prevKeyRef, prevChildrenRef, ctMicrotasks, timeline>>

vars == <<jsonVars, pageVars, themeVars, drawerVars, statVars, heatVars, transitionVars>>

\* What a step of one component leaves alone: the other components.
notJson == <<pageVars, themeVars, drawerVars, statVars, heatVars, transitionVars>>

notPage == <<jsonVars, themeVars, drawerVars, statVars, heatVars, transitionVars>>

notTheme == <<jsonVars, pageVars, drawerVars, statVars, heatVars, transitionVars>>

notDrawer == <<jsonVars, pageVars, themeVars, statVars, heatVars, transitionVars>>

notStats == <<jsonVars, pageVars, themeVars, drawerVars, heatVars, transitionVars>>

notHeat == <<jsonVars, pageVars, themeVars, drawerVars, statVars, transitionVars>>

notTransition == <<jsonVars, pageVars, themeVars, drawerVars, statVars, heatVars>>

\* ------------------------------------------------------------------------
\* Bounds of the model
\* ------------------------------------------------------------------------

\* JSON inputs: values with at most MaxNodes nodes (containers and leaves).
MaxNodes == 5

\* Pagination: the number of records is at most MaxTotal.
MaxTotal == 100

\* Theme store: initializeTheme callers that have not yet run their cleanup.
MaxListeners == 2

\* Drawer: the number of Drawer instances on the page.
NumDrawers == 2

\* Stat tables and charts: the longest data list.
MaxRows == 2

\* ActivityHeatmap: the longest list of days.
MaxDays == 9

\* ActivityHeatmap: the most resize notifications followed within one burst.
MaxBurst == 2

\* ContentTransition: the number of values transitionKey takes.
NumKeys == 3

\* ------------------------------------------------------------------------
\* JSON values and JSON text
\* ------------------------------------------------------------------------

\* A JSON value: t is its JavaScript kind, lit the literal of a primitive,
\* keys/kids the members of an object (Object.keys order) or the items of an array.
Prim(t, lit) == [t |-> t, lit |-> lit, keys |-> <<>>, kids |-> <<>>]

Arr(kids) == [t |-> "array", lit |-> "", keys |-> <<>>, kids |-> kids]

Obj(keys, kids) == [t |-> "object", lit |-> "", keys |-> keys, kids |-> kids]

JsNull == Prim("null", "null")

Primitives ==
    {JsNull, Prim("boolean", "true"), Prim("boolean", "false"),
     Prim("number", "1"), Prim("string", "s")}

LeafCycle ==
    <<JsNull, Prim("boolean", "true"), Prim("number", "1"), Prim("string", "s")>>

\* The generated values take the kind of each node from its position `salt`
\* (the root's salt plus the node's distance from it in depth and in siblings
\* passed), so that all primitive kinds, arrays in objects, objects in arrays
\* and same-kind nestings occur without multiplying the number of values.
LeafAt(salt) == LeafCycle[(salt % Len(LeafCycle)) + 1]

KeyNames == <<"a", "b", "c", "d", "e", "f", "g", "h">>

KeysFor(n) == SubSeq(KeyNames, 1, n)

Container(salt, kids) ==
    IF salt % 2 = 0 THEN Arr(kids) ELSE Obj(KeysFor(Len(kids)), kids)

RECURSIVE Trees(_, _), Forests(_, _)
\* The generated JSON values with exactly n nodes.
Trees(n, salt) ==
    IF n = 1
    THEN {LeafAt(salt), Container(salt, <<>>)}
    ELSE {Container(salt, f) : f \in Forests(n - 1, salt + 1)}

\* The sequences of generated JSON values with n nodes in total.
Forests(n, salt) ==
    IF n = 0
    THEN {<<>>}
    ELSE UNION {{<<t>> \o f : t \in Trees(k, salt), f \in Forests(n - k, salt + 1)}
                : k \in 1..n}

ValuesUpTo(n) == Primitives \cup UNION {Trees(k, 0) \cup Trees(k, 1) : k \in 1..n}

\* JSON text is a sequence of tokens; c is the token class.
Tok(c, x) == [c |-> c, x |-> x]

Ws == Tok("ws", " ")

Punct(x) == Tok("punct", x)

RECURSIVE Stringify(_), StringifyItems(_, _, _)
\* The JSON text of a value (the input generator's JSON.stringify).
Stringify(v) ==
    CASE v.t = "array" -> <<Punct("[")>> \o StringifyItems(v, 1, FALSE) \o <<Punct("]")>>
      [] v.t = "object" -> <<Punct("{")>> \o StringifyItems(v, 1, TRUE) \o <<Punct("}")>>
      [] v.t = "string" -> <<Tok("str", v.lit)>>
      [] v.t = "number" -> <<Tok("num", v.lit)>>
      [] OTHER -> <<Tok("lit", v.lit)>>

StringifyItems(v, i, withKeys) ==
    IF i > Len(v.kids)
    THEN <<>>
    ELSE (IF withKeys THEN <<Tok("str", v.keys[i]), Punct(":")>> ELSE <<>>)
         \o Stringify(v.kids[i])
         \o (IF i < Len(v.kids) THEN <<Punct(",")>> ELSE <<>>)
         \o StringifyItems(v, i + 1, withKeys)

\* ------------------------------------------------------------------------
\* String.prototype.trim and JSON.parse on token sequences
\* ------------------------------------------------------------------------

RECURSIVE SkipWs(_, _)
\* The first index >= i of s that holds no whitespace (Len(s) + 1 if none).
SkipWs(s, i) ==
    IF i <= Len(s) /\ s[i].c = "ws" THEN SkipWs(s, i + 1) ELSE i

RECURSIVE LastNonWs(_, _)
LastNonWs(s, i) ==
    IF i >= 1 /\ s[i].c = "ws" THEN LastNonWs(s, i - 1) ELSE i

trim(s) == SubSeq(s, SkipWs(s, 1), LastNonWs(s, Len(s)))

ParseFail == [ok |-> FALSE, val |-> JsNull, next |-> 0]

ParseOk(v, next) == [ok |-> TRUE, val |-> v, next |-> next]

IsPunct(s, i, x) == i <= Len(s) /\ s[i] = Punct(x)

\* obj[key] = val: a repeated key keeps its first position and takes the last value.
SetMember(obj, key, val) ==
    IF \E j \in 1..Len(obj.keys) : obj.keys[j] = key
    THEN LET j == CHOOSE j \in 1..Len(obj.keys) : obj.keys[j] = key
         IN  Obj(obj.keys, [obj.kids EXCEPT ![j] = val])
    ELSE Obj(Append(obj.keys, key), Append(obj.kids, val))

RECURSIVE ParseValue(_, _), ParseElements(_, _, _), ParseMembers(_, _, _)
\* The JSON value that starts at token i of s (after optional whitespace).
ParseValue(s, i0) ==
    LET i == SkipWs(s, i0)
    IN  IF i > Len(s) THEN ParseFail
        ELSE CASE s[i].c = "lit" ->
                    ParseOk(Prim(IF s[i].x = "null" THEN "null" ELSE "boolean", s[i].x), i + 1)
               [] s[i].c = "num" -> ParseOk(Prim("number", s[i].x), i + 1)
               [] s[i].c = "str" -> ParseOk(Prim("string", s[i].x), i + 1)
               [] s[i] = Punct("[") ->
                    LET j == SkipWs(s, i + 1)
                    IN  IF IsPunct(s, j, "]") THEN ParseOk(Arr(<<>>), j + 1)
                        ELSE ParseElements(s, j, <<>>)
               [] s[i] = Punct("{") ->
                    LET j == SkipWs(s, i + 1)
                    IN  IF IsPunct(s, j, "}") THEN ParseOk(Obj(<<>>, <<>>), j + 1)
                        ELSE ParseMembers(s, j, Obj(<<>>, <<>>))
               [] OTHER -> ParseFail

\* element (, element)* ] with the elements read so far in acc.
ParseElements(s, i, acc) ==
    LET r == ParseValue(s, i)
        j == SkipWs(s, r.next)
    IN  IF ~r.ok THEN ParseFail
        ELSE IF IsPunct(s, j, "]") THEN ParseOk(Arr(Append(acc, r.val)), j + 1)
        ELSE IF IsPunct(s, j, ",") THEN ParseElements(s, j + 1, Append(acc, r.val))
        ELSE ParseFail

\* string : value (, string : value)* } with the members read so far in acc.
ParseMembers(s, i0, acc) ==
    LET i == SkipWs(s, i0)
        c == SkipWs(s, i + 1)
    IN  IF i > Len(s) \/ s[i].c # "str" \/ ~IsPunct(s, c, ":") THEN ParseFail
        ELSE LET r == ParseValue(s, c + 1)
                 j == SkipWs(s, r.next)
                 obj == SetMember(acc, s[i].x, r.val)
             IN  IF ~r.ok THEN ParseFail
                 ELSE IF IsPunct(s, j, "}") THEN ParseOk(obj, j + 1)
                 ELSE IF IsPunct(s, j, ",") THEN ParseMembers(s, j + 1, obj)
                 ELSE ParseFail

\* JSON.parse(text): ok = FALSE stands for the SyntaxError it throws.
JSONparse(s) ==
    LET r == ParseValue(s, 1)
    IN  IF r.ok /\ SkipWs(s, r.next) > Len(s) THEN r ELSE ParseFail

\* ------------------------------------------------------------------------
\* JsonViewer: parseJsonToLines
\* ------------------------------------------------------------------------

\* blockId '' of a line that opens no block; `block-k` is the number k.
EmptyBlockId == -1

\* blockEnd of a line that has none (undefined).
NoBlockEnd == -1

escapeHtml(value) ==
    CASE value = "&" -> "&amp;"
      [] value = "<" -> "&lt;"
      [] value = ">" -> "&gt;"
      [] value = "\"" -> "&quot;"
      [] OTHER -> value

classMap(type) ==
    CASE type = "key" -> "token-key"
      [] type = "string" -> "token-string"
      [] type = "number" -> "token-number"
      [] type = "boolean" -> "token-boolean"
      [] type = "null" -> "token-null"
      [] type = "bracket" -> "token-bracket"
      [] type = "punctuation" -> "token-punctuation"
      [] type = "ellipsis" -> "token-ellipsis"

\* One <span class=...>text</span>, as html: a sequence of pieces.  `value` is the
\* sequence of the characters (or unbroken words) of the text.
getTokenHtml(value, type) ==
    <<[cls |-> classMap(type), text |-> [i \in 1..Len(value) |-> escapeHtml(value[i])]]>>

\* Text outside any span.
RawHtml(text) == IF text = "" THEN <<>> ELSE <<[cls |-> "", text |-> <<text>>]>>

JsonLine(st, indent, html, canFold, blockId, info, closing, comma) ==
    [id |-> Len(st.result), lineNumber |-> st.lineNumber, indent |-> indent,
     html |-> html, canFold |-> canFold, blockId |-> blockId, blockEnd |-> NoBlockEnd,
     collapsedInfo |-> info, closingBracket |-> closing, trailingComma |-> comma]

\* result.push({ id: result.length, lineNumber: lineNumber++, ... })
PushLine(st, indent, html, canFold, blockId, info, closing, comma) ==
    [st EXCEPT
        !.result = Append(@, JsonLine(st, indent, html, canFold, blockId, info, closing, comma)),
        !.lineNumber = @ + 1]

NoInfo == [n |-> 0, unit |-> ""]

\* A line that opens no block: a primitive, [] or {}.
PushPlain(st, indent, html) == PushLine(st, indent, html, FALSE, EmptyBlockId, NoInfo, "", "")

\* The token of a primitive value.
PrimitiveHtml(value) ==
    CASE value.t = "null" -> getTokenHtml(<<"null">>, "null")
      [] value.t = "boolean" -> getTokenHtml(<<value.lit>>, "boolean")
      [] value.t = "number" -> getTokenHtml(<<value.lit>>, "number")
      [] value.t = "string" -> getTokenHtml(<<"\"", value.lit, "\"">>, "string")
      [] OTHER -> getTokenHtml(<<value.lit>>, "string")

\* The line that opens a non-empty array or object takes the next block id.
OpenBlock(st, indent, keyPrefix, bracket, closing, info, comma) ==
    [PushLine(st, indent, keyPrefix \o getTokenHtml(<<bracket>>, "bracket"), TRUE,
              st.blockIdCounter, info, closing, comma)
        EXCEPT !.blockIdCounter = @ + 1]

\* Mutant of CloseBlock: blockEnd is result.length, one past the closing line.
CloseBlock_EndPastClosing(st, startLine, indent, closing, comma) ==
    LET pushed == PushPlain(st, indent, getTokenHtml(<<closing>>, "bracket") \o RawHtml(comma))
    IN  [pushed EXCEPT !.result[startLine + 1].blockEnd = Len(pushed.result)]

\* The closing line is pushed, then result[startLine].blockEnd = result.length - 1.
CloseBlock(st, startLine, indent, closing, comma) ==
    LET pushed == PushPlain(st, indent, getTokenHtml(<<closing>>, "bracket") \o RawHtml(comma))
    IN  [pushed EXCEPT !.result[startLine + 1].blockEnd = Len(pushed.result) - 1]

KeyPrefix(key) ==
    getTokenHtml(<<"\"", key, "\"">>, "key") \o getTokenHtml(<<": ">>, "punctuation")

RECURSIVE processValue(_, _, _, _, _), processItems(_, _, _, _)
processValue(value, indent, isLast, keyPrefix, st) ==
    LET comma == IF isLast THEN "" ELSE ","
        n == Len(value.kids)
    IN  CASE value.t = "array" /\ n = 0 ->
                PushPlain(st, indent, keyPrefix \o getTokenHtml(<<"[]">>, "bracket") \o RawHtml(comma))
          [] value.t = "array" /\ n > 0 ->
                CloseBlock(
                    processItems(value, 1, indent + 1,
                        OpenBlock(st, indent, keyPrefix, "[", "]", [n |-> n, unit |-> "items"], comma)),
                    Len(st.result), indent, "]", comma)
          [] value.t = "object" /\ n = 0 ->
                PushPlain(st, indent, keyPrefix \o getTokenHtml(<<"{}">>, "bracket") \o RawHtml(comma))
          [] value.t = "object" /\ n > 0 ->
                CloseBlock(
                    processItems(value, 1, indent + 1,
                        OpenBlock(st, indent, keyPrefix, "{", "}", [n |-> n, unit |-> "keys"], comma)),
                    Len(st.result), indent, "}", comma)
          [] OTHER ->
                PushPlain(st, indent, keyPrefix \o PrimitiveHtml(value) \o RawHtml(comma))

\* value.forEach / keys.forEach from item idx on.
processItems(value, idx, indent, st) ==
    IF idx > Len(value.kids)
    THEN st
    ELSE processItems(value, idx + 1, indent,
            processValue(value.kids[idx], indent, idx = Len(value.kids),
                         IF value.t = "object" THEN KeyPrefix(value.keys[idx]) ELSE <<>>,
                         st))

parseJsonToLines(data) ==
    processValue(data, 0, TRUE, <<>>,
                 [result |-> <<>>, lineNumber |-> 1, blockIdCounter |-> 0]).result

\* ------------------------------------------------------------------------
\* JsonViewer: the component
\* ------------------------------------------------------------------------

\* The `data` prop: string | Record<string, unknown> | null | undefined.
NullData == [ty |-> "null", str |-> <<>>, val |-> JsNull]

UndefinedData == [ty |-> "undefined", str |-> <<>>, val |-> JsNull]

StringData(s) == [ty |-> "string", str |-> s, val |-> JsNull]

ObjectData(v) == [ty |-> "object", str |-> <<>>, val |-> v]

isPlainObject(value) == value.t = "object"

\* Mutant of Normalize: the raw-text state keeps the trimmed text.
Normalize_TrimmedText(data) ==
    IF data.ty \in {"null", "undefined"}
    THEN [kind |-> "empty", value |-> JsNull, text |-> <<>>]
    ELSE IF data.ty = "string"
    THEN LET trimmed == trim(data.str)
             parsed == JSONparse(trimmed)
         IN  IF Len(trimmed) = 0 THEN [kind |-> "empty", value |-> JsNull, text |-> <<>>]
             ELSE IF parsed.ok THEN [kind |-> "json", value |-> parsed.val, text |-> <<>>]
             ELSE [kind |-> "text", value |-> JsNull, text |-> trimmed]
    ELSE [kind |-> "json", value |-> data.val, text |-> <<>>]

\* useMemo normalized: { kind: 'empty' } | { kind: 'json', value } | { kind: 'text', value }
Normalize(data) ==
    IF data.ty \in {"null", "undefined"}
    THEN [kind |-> "empty", value |-> JsNull, text |-> <<>>]
    ELSE IF data.ty = "string"
    THEN LET trimmed == trim(data.str)
             parsed == JSONparse(trimmed)
         IN  IF Len(trimmed) = 0 THEN [kind |-> "empty", value |-> JsNull, text |-> <<>>]
             ELSE IF parsed.ok THEN [kind |-> "json", value |-> parsed.val, text |-> <<>>]
             ELSE [kind |-> "text", value |-> JsNull, text |-> data.str]
    ELSE [kind |-> "json", value |-> data.val, text |-> <<>>]

\* useMemo parseErrorMessage: null is the empty string here.
parseErrorMessage(data) ==
    IF data.ty # "string" THEN ""
    ELSE LET trimmed == trim(data.str)
         IN  IF Len(trimmed) = 0 THEN ""
             ELSE IF JSONparse(trimmed).ok THEN ""
             ELSE "invalid JSON"

\* useMemo lines
LinesOf(norm) == IF norm.kind # "json" THEN <<>> ELSE parseJsonToLines(norm.value)

\* useMemo effectiveCollapsedBlocks
effectiveCollapsedBlocks ==
    IF normalized.kind = "json" THEN collapsedBlocks ELSE {}

\* lines.find((l) => l.canFold && l.blockId === blockId): the index of the first
\* such line, 0 if there is none.
FindFoldStart(ls, blockId) ==
    LET hits == {i \in 1..Len(ls) : ls[i].canFold /\ ls[i].blockId = blockId}
    IN  IF hits = {} THEN 0 ELSE CHOOSE i \in hits : \A j \in hits : i <= j

\* Mutant of HiddenBy: the loop runs to idx <= foldStart.blockEnd.
HiddenBy_InclusiveEnd(ls, blockId) ==
    LET at == FindFoldStart(ls, blockId)
    IN  IF at = 0 \/ ls[at].blockEnd = NoBlockEnd THEN {}
        ELSE {idx \in (ls[at].id + 1)..ls[at].blockEnd : TRUE}

\* for (let idx = foldStart.id + 1; idx < foldStart.blockEnd; idx++) hiddenLineIds.add(idx)
HiddenBy(ls, blockId) ==
    LET at == FindFoldStart(ls, blockId)
    IN  IF at = 0 \/ ls[at].blockEnd = NoBlockEnd THEN {}
        ELSE {idx \in (ls[at].id + 1)..(ls[at].blockEnd - 1) : TRUE}

hiddenLineIds(ls, collapsed) == UNION {HiddenBy(ls, b) : b \in collapsed}

\* useMemo visibleLines
visibleLines ==
    IF normalized.kind # "json" THEN <<>>
    ELSE LET hidden == hiddenLineIds(lines, effectiveCollapsedBlocks)
         IN  SelectSeq(lines, LAMBDA l : l.id \notin hidden)

\* Mutant of toggleFold: a block that is folded becomes the only folded one.
toggleFold_Accordion(prev, blockId) ==
    IF blockId = EmptyBlockId THEN prev
    ELSE IF blockId \in prev THEN prev \ {blockId}
    ELSE {blockId}

\* toggleFold's state update, with its early return on an empty block id.
toggleFold(prev, blockId) ==
    IF blockId = EmptyBlockId THEN prev
    ELSE IF blockId \in prev THEN prev \ {blockId}
    ELSE prev \cup {blockId}

IsCollapsedLine(line) == line.canFold /\ line.blockId \in effectiveCollapsedBlocks

\* displayHtml of a rendered line
displayHtml(line) ==
    IF IsCollapsedLine(line)
    THEN line.html \o getTokenHtml(<<" ... ">>, "ellipsis")
                   \o getTokenHtml(IF line.closingBracket = "" THEN <<>> ELSE <<line.closingBracket>>, "bracket")
                   \o RawHtml(line.trailingComma)
    ELSE line.html

\* What the component returns: the root element's class, whether the parse
\* warning is in it, the raw text in <code>, and the rendered lines.
JsonViewer ==
    IF normalized.kind = "empty"
    THEN [root |-> "json-viewer-empty", warning |-> FALSE, code |-> <<>>, rows |-> <<>>]
    ELSE IF normalized.kind = "text"
    THEN [root |-> "json-viewer-raw", warning |-> parseErrorMessage(jsonData) # "",
          code |-> normalized.text, rows |-> <<>>]
    ELSE IF isPlainObject(normalized.value) /\ Len(normalized.value.keys) = 0
    THEN [root |-> "json-viewer-empty", warning |-> FALSE, code |-> <<>>, rows |-> <<>>]
    ELSE [root |-> "json-viewer-tree", warning |-> FALSE, code |-> <<>>,
          rows |-> [i \in 1..Len(visibleLines) |->
                        [id |-> visibleLines[i].id,
                         lineNumber |-> visibleLines[i].lineNumber,
                         hasFoldButton |-> visibleLines[i].canFold,
                         isCollapsed |-> IsCollapsedLine(visibleLines[i]),
                         html |-> displayHtml(visibleLines[i])]]]

\* The texts a value is passed as: its JSON text, the text padded with
\* whitespace (around it and after its first token), and the text cut by one
\* token at its end (with whitespace around what is left) or at its start.
Pad(s) == <<Ws, Head(s), Ws>> \o Tail(s) \o <<Ws>>

TextsOf(v) ==
    LET s == Stringify(v)
    IN  {s, Pad(s), <<Ws>> \o SubSeq(s, 1, Len(s) - 1) \o <<Ws>>, Tail(s)}

JsonInputs ==
    {NullData, UndefinedData, StringData(<<>>), StringData(<<Ws>>)}
    \cup {ObjectData(v) : v \in {w \in ValuesUpTo(MaxNodes) : w.t = "object"}}
    \cup {StringData(s) : s \in UNION {TextsOf(v) : v \in ValuesUpTo(MaxNodes)}}

\* The contents the parent switches the viewer to: nothing, blank text, text
\* that is no JSON, a primitive, and values whose blocks take the ids 0, 1, 2.
SwitchInputs ==
    {NullData,
     StringData(<<Ws>>),
     StringData(<<Ws, Punct("["), Tok("num", "1")>>),
     StringData(<<Tok("num", "1")>>),
     StringData(Pad(Stringify(Arr(<<Arr(<<JsNull>>), Arr(<<JsNull>>)>>)))),
     ObjectData(Obj(<<>>, <<>>)),
     ObjectData(Obj(<<"a">>, <<Obj(<<"b">>, <<Arr(<<Prim("string", "s")>>)>>)>>))}

JsonInit ==
    /\ jsonData \in JsonInputs
    /\ normalized = Normalize(jsonData)
    /\ lines = LinesOf(normalized)
    /\ collapsedBlocks = {}
    /\ lastToggled = EmptyBlockId

\* The parent renders the viewer with another `data`: the memos that depend on
\* it are recomputed, the collapsed set is component state and is kept.
SetData(d) ==
    /\ d # jsonData
    /\ jsonData' = d
    /\ normalized' = Normalize(d)
    /\ lines' = LinesOf(normalized')
    /\ UNCHANGED <<collapsedBlocks, lastToggled>>
    /\ UNCHANGED notJson

\* A click on the fold button of a rendered line that can fold.
ClickFoldButton(i) ==
    /\ JsonViewer.rows[i].hasFoldButton
    /\ collapsedBlocks' = toggleFold(collapsedBlocks, visibleLines[i].blockId)
    /\ lastToggled' = visibleLines[i].blockId
    /\ UNCHANGED <<jsonData, normalized, lines>>
    /\ UNCHANGED notJson

\* A click on the content of a rendered line: it unfolds a collapsed line.
ClickLineContent(i) ==
    /\ JsonViewer.rows[i].isCollapsed
    /\ collapsedBlocks' = toggleFold(collapsedBlocks, visibleLines[i].blockId)
    /\ lastToggled' = visibleLines[i].blockId
    /\ UNCHANGED <<jsonData, normalized, lines>>
    /\ UNCHANGED notJson

JsonNext ==
    \/ \E d \in SwitchInputs : SetData(d)
    \/ \E i \in 1..Len(JsonViewer.rows) : ClickFoldButton(i)
    \/ \E i \in 1..Len(JsonViewer.rows) : ClickLineContent(i)

\* The viewer is not mounted.
JsonIdle ==
    /\ jsonData = NullData
    /\ normalized = Normalize(NullData)
    /\ lines = <<>>
    /\ collapsedBlocks = {}
    /\ lastToggled = EmptyBlockId

\* ------------------------------------------------------------------------
\* JsonViewer: properties
\* ------------------------------------------------------------------------

VisibleIds == {visibleLines[i].id : i \in 1..Len(visibleLines)}

\* Line l lies strictly between the start line of collapsed block b and that
\* line's blockEnd.
InsideCollapsed(l, b) ==
    \E i \in 1..Len(lines) :
        /\ lines[i].canFold
        /\ lines[i].blockId = b
        /\ lines[i].id < l.id
        /\ l.id < lines[i].blockEnd

\* Block b has a start line in the current content.
BlockStarts(b) == {i \in 1..Len(lines) : lines[i].canFold /\ lines[i].blockId = b}

\* C1: with JSON content and any collapsed set, the visible lines are, in
\* order, exactly the lines that lie strictly inside no collapsed block; the
\* start and end line of a collapsed block are visible unless they lie inside
\* another collapsed block, and a block that has just been unfolded has every
\* line of it visible that lies inside no block that is still collapsed.
C1_VisibleLinesExact ==
    normalized.kind = "json" =>
        /\ VisibleIds =
              {lines[i].id : i \in {j \in 1..Len(lines) :
                    \A b \in collapsedBlocks : ~InsideCollapsed(lines[j], b)}}
        /\ \A i \in 1..Len(visibleLines) : visibleLines[i] = lines[visibleLines[i].id + 1]
        /\ \A i \in 1..Len(visibleLines) : \A j \in 1..Len(visibleLines) :
              i < j => visibleLines[i].id < visibleLines[j].id
        /\ \A b \in collapsedBlocks : \A i \in BlockStarts(b) :
              /\ (\A c \in collapsedBlocks \ {b} : ~InsideCollapsed(lines[i], c))
                    => lines[i].id \in VisibleIds
              /\ (\A c \in collapsedBlocks \ {b} : ~InsideCollapsed(lines[lines[i].blockEnd + 1], c))
                    => lines[i].blockEnd \in VisibleIds
        /\ (lastToggled # EmptyBlockId /\ lastToggled \notin collapsedBlocks) =>
              \A i \in BlockStarts(lastToggled) :
                 \A id \in lines[i].id .. lines[i].blockEnd :
                    (\A c \in collapsedBlocks : ~InsideCollapsed(lines[id + 1], c))
                        => id \in VisibleIds

\* C1 witness: two collapsed blocks, one nested in the other, each hiding a
\* line, and the outer one's start and end lines rendered.
C1_Witness ==
    /\ normalized.kind = "json"
    /\ \E b \in collapsedBlocks : \E c \in collapsedBlocks \ {b} :
         \E i \in BlockStarts(b) : \E j \in BlockStarts(c) :
            /\ InsideCollapsed(lines[j], b)
            /\ lines[j].blockEnd > lines[j].id + 1
            /\ lines[i].id \in VisibleIds
            /\ lines[i].blockEnd \in VisibleIds
            /\ lines[j].id \notin VisibleIds

\* The input is a string whose trimmed content is non-empty and no valid JSON.
InvalidJsonInput ==
    /\ jsonData.ty = "string"
    /\ Len(trim(jsonData.str)) > 0
    /\ ~JSONparse(trim(jsonData.str)).ok

\* C7: such an input is shown as raw text: the original, untrimmed string with
\* the parse warning and no tree; the warning is shown for no other input.
C7_RawTextFallback ==
    /\ InvalidJsonInput =>
          /\ JsonViewer.root = "json-viewer-raw"
          /\ JsonViewer.code = jsonData.str
          /\ JsonViewer.warning
          /\ JsonViewer.rows = <<>>
    /\ JsonViewer.warning => InvalidJsonInput
    /\ JsonViewer.root = "json-viewer-raw" => InvalidJsonInput

\* C7 witness: text that is no JSON, with whitespace around it, on display
\* after the viewer showed a tree with a collapsed block.
C7_Witness ==
    /\ InvalidJsonInput
    /\ trim(jsonData.str) # jsonData.str
    /\ collapsedBlocks # {}
    /\ JsonViewer.root = "json-viewer-raw"
    /\ JsonViewer.warning

\* The blocks of the content on display that are collapsed: those of the
\* effective collapsed set that have a start line.
CollapsedOnDisplay == {b \in effectiveCollapsedBlocks : BlockStarts(b) # {}}

\* C21: a step that changes the data prop leaves no block of the new content
\* collapsed, whatever was collapsed before.
C21_FoldsResetOnSwitch ==
    [][jsonData' # jsonData => CollapsedOnDisplay' = {}]_vars

\* The rendered rows that show the closing bracket of the block that starts
\* at line `start`: the start line's own row, if its html has the bracket
\* token, and the row of the block's closing line.
RowsShowingClosing(start) ==
    LET bracket == [cls |-> classMap("bracket"), text |-> <<start.closingBracket>>]
        rows == JsonViewer.rows
    IN  {r \in 1..Len(rows) :
            /\ rows[r].id \in {start.id, start.blockEnd}
            /\ \E k \in 1..Len(rows[r].html) : rows[r].html[k] = bracket}

\* C22: a collapsed block whose start line is rendered has its closing
\* bracket in exactly one rendered row.
C22_ClosingBracketOnce ==
    \A b \in effectiveCollapsedBlocks : \A i \in BlockStarts(b) :
        lines[i].id \in VisibleIds => Cardinality(RowsShowingClosing(lines[i])) = 1

\* The block ids of the content on display and of the collapsed set, and
\* the empty id.
BlockIds ==
    {lines[i].blockId : i \in 1..Len(lines)} \cup collapsedBlocks \cup {EmptyBlockId}

\* The visible lines the component computes when its collapsed set is
\* `collapsed`.
visibleLinesWith(collapsed) ==
    IF normalized.kind # "json" THEN <<>>
    ELSE SelectSeq(lines, LAMBDA l : l.id \notin hiddenLineIds(lines, collapsed))

\* C23: from the collapsed set of any state, toggling a block twice gives
\* the set and the visible lines back, the toggles of two blocks give the
\* same set in either order, a toggle changes the membership of no block but
\* its own, and the toggle of the empty id changes nothing; and every step
\* of the viewer that changes the collapsed set changes the membership of
\* the toggled block alone.
C23_ToggleAlgebra ==
    /\ [](\A a \in BlockIds :
            /\ toggleFold(toggleFold(collapsedBlocks, a), a) = collapsedBlocks
            /\ visibleLinesWith(toggleFold(toggleFold(collapsedBlocks, a), a)) = visibleLines
            /\ \A b \in BlockIds :
                  toggleFold(toggleFold(collapsedBlocks, a), b)
                     = toggleFold(toggleFold(collapsedBlocks, b), a)
            /\ \A c \in BlockIds \ {a} :
                  c \in toggleFold(collapsedBlocks, a) <=> c \in collapsedBlocks
            /\ a # EmptyBlockId =>
                  (a \in toggleFold(collapsedBlocks, a) <=> a \notin collapsedBlocks)
            /\ toggleFold(collapsedBlocks, EmptyBlockId) = collapsedBlocks)
    /\ [][collapsedBlocks' # collapsedBlocks =>
             \A c \in (collapsedBlocks \cup collapsedBlocks') \ {lastToggled'} :
                 c \in collapsedBlocks' <=> c \in collapsedBlocks]_vars

\* C23 witness: a block nested in another is collapsed, and the outer block
\* has been folded and, with the last toggle, unfolded again.
C23_Witness ==
    /\ normalized.kind = "json"
    /\ lastToggled # EmptyBlockId
    /\ lastToggled \notin collapsedBlocks
    /\ \E c \in collapsedBlocks : \E j \in BlockStarts(c) :
          /\ InsideCollapsed(lines[j], lastToggled)
          /\ lines[j].id \in VisibleIds

\* The number of lines of a value: one for a primitive or an empty array or
\* object, else the opening line, the lines of the items and the closing line.
RECURSIVE LineCount(_), LineCountFrom(_, _)
LineCount(v) ==
    IF v.t \in {"array", "object"} /\ Len(v.kids) > 0 THEN 2 + LineCountFrom(v, 1) ELSE 1

LineCountFrom(v, idx) ==
    IF idx > Len(v.kids) THEN 0 ELSE LineCount(v.kids[idx]) + LineCountFrom(v, idx + 1)

\* The number of non-empty arrays and objects in a value.
RECURSIVE BlockCount(_), BlockCountFrom(_, _)
BlockCount(v) ==
    IF v.t \in {"array", "object"} /\ Len(v.kids) > 0 THEN 1 + BlockCountFrom(v, 1) ELSE 0

BlockCountFrom(v, idx) ==
    IF idx > Len(v.kids) THEN 0 ELSE BlockCount(v.kids[idx]) + BlockCountFrom(v, idx + 1)

BracketToken(bracket) == [cls |-> classMap("bracket"), text |-> <<bracket>>]

\* The line's html ends with the token of an opening bracket.
OpensBlock(line) ==
    /\ line.html # <<>>
    /\ line.html[Len(line.html)] \in {BracketToken("["), BracketToken("{")}

\* The line begins with the token of the closing bracket `closing`.
ClosesWith(line, closing) ==
    /\ line.html # <<>>
    /\ line.html[1] = BracketToken(closing)

Foldable == {i \in 1..Len(lines) : lines[i].canFold}

\* C24: for JSON content the lines have the ids 0..n-1 in order and line
\* numbers id + 1; a line can fold exactly when it opens a non-empty array
\* or object; each such line has a block id that is not empty and is no
\* other line's, and a blockEnd greater than its id that is the id of the
\* closing-bracket line matching it, the first later line at its indent; and
\* two blocks are disjoint or one lies strictly inside the other.
C24_LineStructure ==
    normalized.kind = "json" =>
        /\ Len(lines) = LineCount(normalized.value)
        /\ \A i \in 1..Len(lines) :
              /\ lines[i].id = i - 1
              /\ lines[i].lineNumber = lines[i].id + 1
              /\ lines[i].canFold <=> OpensBlock(lines[i])
        /\ Cardinality(Foldable) = BlockCount(normalized.value)
        /\ \A i \in Foldable :
              /\ lines[i].blockId # EmptyBlockId
              /\ \A j \in Foldable \ {i} : lines[j].blockId # lines[i].blockId
              /\ lines[i].blockEnd > lines[i].id
              /\ lines[i].blockEnd < Len(lines)
              /\ LET end == lines[lines[i].blockEnd + 1]
                 IN  /\ ClosesWith(end, lines[i].closingBracket)
                     /\ lines[i].closingBracket =
                           (IF lines[i].html[Len(lines[i].html)] = BracketToken("[") THEN "]" ELSE "}")
                     /\ ~end.canFold
                     /\ end.indent = lines[i].indent
                     /\ \A k \in (i + 1)..lines[i].blockEnd : lines[k].indent > lines[i].indent
        /\ \A i \in Foldable : \A j \in Foldable \ {i} :
              \/ lines[i].blockEnd < lines[j].id
              \/ lines[j].blockEnd < lines[i].id
              \/ lines[i].id < lines[j].id /\ lines[j].blockEnd < lines[i].blockEnd
              \/ lines[j].id < lines[i].id /\ lines[i].blockEnd < lines[j].blockEnd

\* C24 witness: content with two blocks side by side inside a third, and a
\* line that opens nothing.
C24_Witness ==
    /\ normalized.kind = "json"
    /\ \E i \in Foldable : \E j \in Foldable : \E k \in Foldable :
          /\ lines[i].id < lines[j].id
          /\ lines[j].blockEnd < lines[k].id
          /\ lines[k].blockEnd < lines[i].blockEnd
    /\ \E i \in 1..Len(lines) : ~lines[i].canFold /\ lines[i].blockId = EmptyBlockId

\* ------------------------------------------------------------------------
\* Pagination
\* ------------------------------------------------------------------------

\* pageSizeOptions = [10, 20, 50, 100]
pageSizeOptions == <<10, 20, 50, 100>>

PageSizes == {pageSizeOptions[i] : i \in 1..Len(pageSizeOptions)}

\* Math.ceil(a / b) for a >= 0 and b > 0
CeilDiv(a, b) == (a + b - 1) \div b

totalPages == CeilDiv(total, pageSize)

\* An entry of getPageNumbers(): a page number, or '...'.
Page(n) == [kind |-> "page", n |-> n]

Ellipsis == [kind |-> "ellipsis", n |-> 0]

\* for (let i = from; i <= to; i++) pages.push(i)
PageRun(from, to) == [i \in 1..(to - from + 1) |-> Page(from + i - 1)]

\* Mutant of getPageNumbers: near the end the window starts at totalPages - 3.
getPageNumbers_ShortTail ==
    IF totalPages <= 7
    THEN PageRun(1, totalPages)
    ELSE IF current <= 3
    THEN PageRun(1, 5) \o <<Ellipsis, Page(totalPages)>>
    ELSE IF current >= totalPages - 2
    THEN <<Page(1), Ellipsis>> \o PageRun(totalPages - 3, totalPages)
    ELSE <<Page(1), Ellipsis>> \o PageRun(current - 1, current + 1)
            \o <<Ellipsis, Page(totalPages)>>

getPageNumbers ==
    IF totalPages <= 7
    THEN PageRun(1, totalPages)
    ELSE IF current <= 3
    THEN PageRun(1, 5) \o <<Ellipsis, Page(totalPages)>>
    ELSE IF current >= totalPages - 2
    THEN <<Page(1), Ellipsis>> \o PageRun(totalPages - 4, totalPages)
    ELSE <<Page(1), Ellipsis>> \o PageRun(current - 1, current + 1)
            \o <<Ellipsis, Page(totalPages)>>

\* handlePageChange(page): onPageChange(page) unless the page is out of range or
\* the current one; the parent, which owns `current`, takes the page.
handlePageChange(page) ==
    /\ ~(page < 1 \/ page > totalPages \/ page = current)
    /\ current' = page
    /\ UNCHANGED <<total, pageSize>>
    /\ UNCHANGED notPage

\* The component renders nothing for an empty list.
PaginationRendered == total # 0

ClickFirst == PaginationRendered /\ current # 1 /\ handlePageChange(1)

ClickPrev == PaginationRendered /\ current # 1 /\ handlePageChange(current - 1)

ClickPageNumber ==
    /\ PaginationRendered
    /\ \E i \in 1..Len(getPageNumbers) :
          /\ getPageNumbers[i].kind = "page"
          /\ handlePageChange(getPageNumbers[i].n)

ClickNext == PaginationRendered /\ current # totalPages /\ handlePageChange(current + 1)

ClickLast == PaginationRendered /\ current # totalPages /\ handlePageChange(totalPages)

\* handlePageSizeChange(value): onPageSizeChange(newSize) when the size differs;
\* the parent takes the size and keeps the page or goes back to the first one.
handlePageSizeChange(newSize) ==
    /\ PaginationRendered
    /\ newSize # pageSize
    /\ pageSize' = newSize
    /\ current' \in {1, current}
    /\ UNCHANGED total
    /\ UNCHANGED notPage

\* The parent renders the component with another record count.
SetTotal(n) ==
    /\ n # total
    /\ total' = n
    /\ UNCHANGED <<current, pageSize>>
    /\ UNCHANGED notPage

PageInit ==
    /\ total \in 0..MaxTotal
    /\ pageSize \in PageSizes
    /\ current = 1

PageIdle ==
    /\ total = 0
    /\ pageSize = pageSizeOptions[2]
    /\ current = 1

PageNext ==
    \/ ClickFirst
    \/ ClickPrev
    \/ ClickPageNumber
    \/ ClickNext
    \/ ClickLast
    \/ \E size \in PageSizes : handlePageSizeChange(size)
    \/ \E n \in 0..MaxTotal : SetTotal(n)

\* ------------------------------------------------------------------------
\* Pagination: properties
\* ------------------------------------------------------------------------

PageIndexes == {i \in 1..Len(getPageNumbers) : getPageNumbers[i].kind = "page"}

ListedPages == {getPageNumbers[i].n : i \in PageIndexes}

\* C2: for a current page within 1..totalPages, up to 7 pages are all listed
\* without ellipsis; more than 7 pages give 7 entries whose page numbers
\* increase strictly and include 1, totalPages and current, and every '...'
\* stands between two listed pages that differ by at least 2.
C2_PageWindow ==
    (current \in 1..totalPages) =>
        IF totalPages <= 7
        THEN getPageNumbers = [i \in 1..totalPages |-> Page(i)]
        ELSE /\ Len(getPageNumbers) = 7
             /\ \A i \in PageIndexes : \A j \in PageIndexes :
                   i < j => getPageNumbers[i].n < getPageNumbers[j].n
             /\ {1, totalPages, current} \subseteq ListedPages
             /\ \A i \in 1..Len(getPageNumbers) :
                   getPageNumbers[i].kind = "ellipsis" =>
                      /\ i - 1 \in PageIndexes
                      /\ i + 1 \in PageIndexes
                      /\ getPageNumbers[i + 1].n - getPageNumbers[i - 1].n >= 2

\* C2 witness: more than 7 pages, the current page reached by a click lies in
\* the middle, and both ellipses are listed.
C2_Witness ==
    /\ totalPages > 7
    /\ current > 3
    /\ current < totalPages - 2
    /\ getPageNumbers[2] = Ellipsis
    /\ getPageNumbers[6] = Ellipsis

\* ------------------------------------------------------------------------
\* Theme store (zustand store with the persist middleware)
\* ------------------------------------------------------------------------

Themes == {"light", "dark", "auto"}

\* getAttribute('data-theme') === null
NoAttribute == "null"

\* Nothing stored under STORAGE_KEY_THEME.
NoItem == [present |-> FALSE, theme |-> "auto", resolvedTheme |-> "light"]

\* The item persist writes: the state without its functions.
Item(t, r) == [present |-> TRUE, theme |-> t, resolvedTheme |-> r]

getSystemTheme == IF hasMatchMedia /\ prefersDark THEN "dark" ELSE "light"

\* Mutant of ResolveWith: 'auto' is resolved without the system theme.
ResolveWith_IgnoreSystem(t, sys) == IF t = "auto" THEN "light" ELSE t

\* const resolved = theme === 'auto' ? getSystemTheme() : theme, as evaluated
\* in the state after the step when sys is getSystemTheme there.
ResolveWith(t, sys) == IF t = "auto" THEN sys ELSE t

\* applyTheme(resolved): the attribute it leaves behind.
applyTheme(resolved, currentTheme) ==
    IF resolved = "dark"
    THEN (IF currentTheme # "dark" THEN "dark" ELSE currentTheme)
    ELSE (IF currentTheme # NoAttribute THEN NoAttribute ELSE currentTheme)

\* Mutant of SetState: the store is updated and nothing is persisted.
SetState_NotPersisted(t, r) ==
    /\ theme' = t
    /\ resolvedTheme' = r
    /\ UNCHANGED storage

\* set(partial) of the persisted store: the state is updated and written to
\* local storage.
SetState(t, r) ==
    /\ theme' = t
    /\ resolvedTheme' = r
    /\ storage' = Item(t, r)

Snapshot == [theme |-> theme, resolvedTheme |-> resolvedTheme, dataTheme |-> dataTheme]

Record(op) ==
    /\ themeOp' = op
    /\ themeBefore' = Snapshot

setTheme(t) ==
    LET resolved == ResolveWith(t, getSystemTheme)
    IN  /\ dataTheme' = applyTheme(resolved, dataTheme)
        /\ SetState(t, resolved)
        /\ Record("setTheme")
        /\ cycleCount' = 0
        /\ UNCHANGED <<prefersDark, hasMatchMedia, listeners, cycleStart>>
        /\ UNCHANGED notTheme

order == <<"light", "dark", "auto">>

\* order.indexOf(theme), 0-based
IndexOf(t) == (CHOOSE i \in 1..Len(order) : order[i] = t) - 1

\* Mutant of NextTheme: the index is not advanced modulo the length.
NextTheme_Stuck(t) == order[IF IndexOf(t) + 1 < Len(order) THEN IndexOf(t) + 2 ELSE Len(order)]

\* order[(currentIndex + 1) % order.length]
NextTheme(t) == order[((IndexOf(t) + 1) % Len(order)) + 1]

cycleTheme ==
    LET nextTheme == NextTheme(theme)
        resolved == ResolveWith(nextTheme, getSystemTheme)
    IN  /\ dataTheme' = applyTheme(resolved, dataTheme)
        /\ SetState(nextTheme, resolved)
        /\ Record("cycleTheme")
        /\ IF cycleCount \in {0, 3}
           THEN cycleStart' = theme /\ cycleCount' = 1
           ELSE cycleStart' = cycleStart /\ cycleCount' = cycleCount + 1
        /\ UNCHANGED <<prefersDark, hasMatchMedia, listeners>>
        /\ UNCHANGED notTheme

\* initializeTheme(): the stored theme is applied, and with matchMedia the
\* 'change' listener is added.
initializeTheme ==
    LET resolved == ResolveWith(theme, getSystemTheme)
    IN  /\ hasMatchMedia => listeners < MaxListeners
        /\ dataTheme' = applyTheme(resolved, dataTheme)
        /\ SetState(theme, resolved)
        /\ listeners' = IF hasMatchMedia THEN listeners + 1 ELSE listeners
        /\ Record("initializeTheme")
        /\ UNCHANGED <<prefersDark, hasMatchMedia, cycleStart, cycleCount>>
        /\ UNCHANGED notTheme

\* The function initializeTheme returned: removeEventListener('change', listener).
removeListener ==
    /\ listeners > 0
    /\ listeners' = listeners - 1
    /\ Record("removeListener")
    /\ UNCHANGED <<theme, resolvedTheme, dataTheme, prefersDark, hasMatchMedia, storage,
                   cycleStart, cycleCount>>
    /\ UNCHANGED notTheme

\* Mutant of listener: the new system theme is applied in every mode.
listener_EveryMode(sys) ==
    /\ dataTheme' = applyTheme(sys, dataTheme)
    /\ SetState(theme, sys)

\* The 'change' listener, run with the system theme sys it reads.
listener(sys) ==
    IF theme = "auto"
    THEN /\ dataTheme' = applyTheme(sys, dataTheme)
         /\ SetState(theme, sys)
    ELSE UNCHANGED <<theme, resolvedTheme, dataTheme, storage>>

\* The OS colour scheme changes; the media query delivers 'change' to the
\* registered listeners (each of them does the same).
systemThemeChange ==
    /\ prefersDark' = ~prefersDark
    /\ IF listeners > 0
       THEN listener(IF prefersDark' THEN "dark" ELSE "light") /\ Record("listener")
       ELSE UNCHANGED <<theme, resolvedTheme, dataTheme, storage>> /\ Record("unheard")
    /\ UNCHANGED <<hasMatchMedia, listeners, cycleStart, cycleCount>>
    /\ UNCHANGED notTheme

\* Mutant of onRehydrateStorage: the stored resolvedTheme is applied as it is.
onRehydrateStorage_StoredResolved(state, currentTheme) ==
    applyTheme(state.resolvedTheme, currentTheme)

\* The callback onRehydrateStorage returns, run with the rehydrated state:
\* the attribute it leaves behind.  resolvedTheme is not set.
onRehydrateStorage(state, currentTheme) ==
    applyTheme(ResolveWith(state.theme, getSystemTheme), currentTheme)

\* The page is loaded again: the store is created with its defaults and
\* rehydrated from local storage, onRehydrateStorage applies the theme to the
\* new document; persist may write the merged state back.
reload ==
    /\ theme' = storage.theme
    /\ resolvedTheme' = storage.resolvedTheme
    /\ storage' \in {storage, Item(theme', resolvedTheme')}
    /\ dataTheme' = onRehydrateStorage(storage, NoAttribute)
    /\ listeners' = 0
    /\ Record("reload")
    /\ cycleCount' = 0
    /\ UNCHANGED <<prefersDark, hasMatchMedia, cycleStart>>
    /\ UNCHANGED notTheme

\* The first load: nothing is stored.
ThemeInit ==
    /\ prefersDark \in BOOLEAN
    /\ hasMatchMedia \in BOOLEAN
    /\ theme = "auto"
    /\ resolvedTheme = "light"
    /\ storage = NoItem
    /\ dataTheme = applyTheme(ResolveWith(theme, getSystemTheme), NoAttribute)
    /\ listeners = 0
    /\ themeOp = "load"
    /\ themeBefore = [theme |-> "auto", resolvedTheme |-> "light", dataTheme |-> NoAttribute]
    /\ cycleStart = "auto"
    /\ cycleCount = 0

ThemeIdle ==
    /\ prefersDark = FALSE
    /\ hasMatchMedia = TRUE
    /\ theme = "auto"
    /\ resolvedTheme = "light"
    /\ storage = NoItem
    /\ dataTheme = NoAttribute
    /\ listeners = 0
    /\ themeOp = "load"
    /\ themeBefore = [theme |-> "auto", resolvedTheme |-> "light", dataTheme |-> NoAttribute]
    /\ cycleStart = "auto"
    /\ cycleCount = 0

ThemeNext ==
    \/ \E t \in Themes : setTheme(t)
    \/ cycleTheme
    \/ initializeTheme
    \/ removeListener
    \/ systemThemeChange
    \/ reload

\* ------------------------------------------------------------------------
\* Theme store: properties
\* ------------------------------------------------------------------------

\* The OS preference, as a theme.
SystemPreference == IF prefersDark THEN "dark" ELSE "light"

AttributeOf(resolved) == IF resolved = "dark" THEN "dark" ELSE NoAttribute

\* C3: while a listener installed by initializeTheme is registered,
\* resolvedTheme is theme for 'light' and 'dark', and the current OS preference
\* for 'auto'.
C3_ResolvedFollowsTheme ==
    listeners > 0 =>
        resolvedTheme = (IF theme = "auto" THEN SystemPreference ELSE theme)

\* C3 witness: in auto mode with a registered listener the OS has gone dark
\* and the store has followed.
C3_Witness ==
    /\ listeners > 0
    /\ theme = "auto"
    /\ themeOp = "listener"
    /\ prefersDark
    /\ resolvedTheme = "dark"

\* C4: cycleTheme moves light -> dark -> auto -> light and sets resolvedTheme
\* and the data-theme attribute from the new preference; three consecutive
\* calls give the starting preference again.
C4_CycleOrder ==
    /\ themeOp = "cycleTheme" =>
          /\ theme = (CASE themeBefore.theme = "light" -> "dark"
                        [] themeBefore.theme = "dark" -> "auto"
                        [] themeBefore.theme = "auto" -> "light")
          /\ resolvedTheme = (IF theme = "auto" THEN getSystemTheme ELSE theme)
          /\ dataTheme = AttributeOf(resolvedTheme)
    /\ cycleCount = 3 => theme = cycleStart

\* C4 witness: the third of three consecutive calls has come back to 'auto'
\* on a dark system.
C4_Witness ==
    /\ themeOp = "cycleTheme"
    /\ cycleCount = 3
    /\ theme = "auto"
    /\ themeBefore.theme = "dark"
    /\ prefersDark
    /\ dataTheme = "dark"

\* C5: a colour-scheme change delivered to the listener never changes theme;
\* in 'light' and 'dark' mode it changes neither resolvedTheme nor the
\* data-theme attribute, in 'auto' mode both follow the new OS preference.
C5_ListenerOnlyInAuto ==
    themeOp = "listener" =>
        /\ theme = themeBefore.theme
        /\ theme \in {"light", "dark"} =>
              /\ resolvedTheme = themeBefore.resolvedTheme
              /\ dataTheme = themeBefore.dataTheme
        /\ theme = "auto" =>
              /\ resolvedTheme = SystemPreference
              /\ dataTheme = AttributeOf(SystemPreference)

\* C5 witness: the listener has run in 'light' mode on a system gone dark.
C5_Witness ==
    /\ themeOp = "listener"
    /\ theme = "light"
    /\ prefersDark
    /\ resolvedTheme = "light"
    /\ dataTheme = NoAttribute

\* C6: what local storage holds is the store's theme, setTheme and cycleTheme
\* leave it stored, and a reload gives the theme the store had before it.
C6_StoredThemeIsTheme ==
    /\ storage.present => storage.theme = theme
    /\ themeOp \in {"setTheme", "cycleTheme"} => storage.present
    /\ themeOp = "reload" => theme = themeBefore.theme

\* C6 witness: a reload has restored a selected 'dark'.
C6_Witness ==
    /\ themeOp = "reload"
    /\ storage.present
    /\ theme = "dark"
    /\ themeBefore.theme = "dark"

\* C19 as amended: after a rehydration with the persisted preference t the
\* data-theme attribute is 'dark' exactly when t is 'dark', or t is 'auto'
\* and window.matchMedia exists and reports that the OS prefers dark; it is
\* absent otherwise.
C19_RehydratedAttribute ==
    themeOp = "reload" =>
        /\ theme = storage.theme
        /\ dataTheme \in {"dark", NoAttribute}
        /\ dataTheme = "dark" <=>
              \/ theme = "dark"
              \/ theme = "auto" /\ hasMatchMedia /\ prefersDark

\* C19 witness: the page was light in 'auto' mode, the OS went dark while no
\* listener was registered, and the reload has set the attribute.
C19_Witness ==
    /\ themeOp = "reload"
    /\ storage.present
    /\ theme = "auto"
    /\ hasMatchMedia
    /\ prefersDark
    /\ themeBefore.dataTheme = NoAttribute
    /\ dataTheme = "dark"

\* C19 as stated: after a rehydration with the persisted preference t the
\* data-theme attribute is 'dark' exactly when t is 'dark', or t is 'auto'
\* and the OS prefers dark; it is absent otherwise.
C19_AsStated ==
    themeOp = "reload" =>
        /\ dataTheme \in {"dark", NoAttribute}
        /\ dataTheme = "dark" <=>
              \/ theme = "dark"
              \/ theme = "auto" /\ prefersDark

\* C20: in every state the data-theme attribute agrees with resolvedTheme:
\* it is 'dark' exactly when resolvedTheme is 'dark'.
C20_AttributeAgrees == dataTheme = AttributeOf(resolvedTheme)

\* ------------------------------------------------------------------------
\* Drawer
\* ------------------------------------------------------------------------

Drawers == 1..NumDrawers

\* closeTimerRef.current === null
NullRef == 0

\* No instance: the numbers of the instances start at 1.
NoDrawer == 0

\* lockScroll(): the counter and the class after it.
lockScroll(lock) ==
    [count |-> lock.count + 1,
     class |-> IF lock.count = 0 THEN TRUE ELSE lock.class]

\* Mutant of unlockScroll: the class is removed whatever the counter.
unlockScroll_ClassAlwaysRemoved(lock) ==
    [count |-> IF lock.count - 1 > 0 THEN lock.count - 1 ELSE 0, class |-> FALSE]

\* unlockScroll(): the counter and the class after it.
unlockScroll(lock) ==
    LET count == IF lock.count - 1 > 0 THEN lock.count - 1 ELSE 0
    IN  [count |-> count, class |-> IF count = 0 THEN FALSE ELSE lock.class]

Lock == [count |-> activeDrawerCount, class |-> drawerOpenClass]

\* The smallest handle no pending timer of the instance has.
FreshHandle(tms) ==
    CHOOSE h \in 1..(Len(tms) + 1) : \A i \in 1..Len(tms) : tms[i].handle # h

\* window.clearTimeout(handle)
clearTimeout(tms, handle) == SelectSeq(tms, LAMBDA t : t.handle # handle)

\* The effect cleanup `cancelled = true`: the instance's queued callbacks will
\* return at `if (cancelled) return`, so they are taken out of the queue here.
Cancel(mq, d) == SelectSeq(mq, LAMBDA m : m.drawer # d)

Microtask(d, kind) == [drawer |-> d, kind |-> kind]

\* The commit of a render of instance d with the prop open = o, the state
\* (v, k), and an onClose that is the function of the last render or a new
\* one (startClose and handleClose are then new too), after a handler left
\* ref, tms and mq: the effects whose dependencies changed are cleaned up and
\* run.  `first` is the mount, where every effect runs.
Commit(d, first, o, newOnClose, v, k, ref, tms, mq) ==
    LET openEffect == first \/ open[d] # o \/ isVisible[d] # v \/ newOnClose
        lockEffect == first \/ (open[d] \/ isVisible[d]) # (o \/ v)
        cleaned == IF openEffect THEN Cancel(mq, d) ELSE mq
        unlocked == IF lockEffect /\ ~first /\ lockHeld[d] THEN unlockScroll(Lock) ELSE Lock
        locked == IF lockEffect /\ (o \/ v) THEN lockScroll(unlocked) ELSE unlocked
    IN  /\ mounted' = [mounted EXCEPT ![d] = TRUE]
        /\ open' = [open EXCEPT ![d] = o]
        /\ isVisible' = [isVisible EXCEPT ![d] = v]
        /\ isClosing' = [isClosing EXCEPT ![d] = k]
        /\ closeTimerRef' = [closeTimerRef EXCEPT ![d] = IF openEffect /\ o THEN NullRef ELSE ref]
        /\ timers' = [timers EXCEPT ![d] =
                         IF openEffect /\ o /\ ref # NullRef THEN clearTimeout(tms, ref) ELSE tms]
        /\ microtasks' =
              IF openEffect /\ o THEN Append(cleaned, Microtask(d, "show"))
              ELSE IF openEffect /\ v THEN Append(cleaned, Microtask(d, "startClose"))
              ELSE cleaned
        /\ lockHeld' = [lockHeld EXCEPT ![d] = IF lockEffect THEN (o \/ v) ELSE @]
        /\ activeDrawerCount' = locked.count
        /\ drawerOpenClass' = locked.class
        /\ UNCHANGED notDrawer

\* Mutant of startClose: a timer is set although one is pending.
startClose_NoGuard(d, notifyParent, mq) ==
    LET handle == FreshHandle(timers[d])
    IN  Commit(d, FALSE, open[d], FALSE, isVisible[d], TRUE, handle,
               Append(timers[d], [handle |-> handle, notifyParent |-> notifyParent]),
               mq)

\* startClose(notifyParent).  The timer's callback calls the onClose of the
\* render that made it; the timer keeps only whether it calls one.
startClose(d, notifyParent, mq) ==
    IF closeTimerRef[d] # NullRef
    THEN Commit(d, FALSE, open[d], FALSE, isVisible[d], isClosing[d],
                closeTimerRef[d], timers[d], mq)
    ELSE LET handle == FreshHandle(timers[d])
         IN  Commit(d, FALSE, open[d], FALSE, isVisible[d], TRUE, handle,
                    Append(timers[d], [handle |-> handle, notifyParent |-> notifyParent]),
                    mq)

\* Only synchronous work precedes the queued microtasks; events and timers
\* are tasks of their own.
TaskMayStart == microtasks = <<>>

\* The parent mounts an instance.
Mount(d, o) ==
    /\ ~mounted[d]
    /\ timers[d] = <<>>
    /\ Commit(d, TRUE, o, TRUE, FALSE, FALSE, NullRef, <<>>, microtasks)
    /\ lateFire' = [lateFire EXCEPT ![d] = "none"]
    /\ UNCHANGED userClose
    /\ invoked' = NoDrawer

\* The parent renders the instance with another open, another onClose, or both.
ParentRender(d, o, newOnClose) ==
    /\ mounted[d]
    /\ o # open[d] \/ newOnClose
    /\ Commit(d, FALSE, o, newOnClose, isVisible[d], isClosing[d],
              closeTimerRef[d], timers[d], microtasks)
    /\ UNCHANGED <<lateFire, userClose>>
    /\ invoked' = NoDrawer

\* Mutant of UnmountTimers: the unmount effect clears nothing.
UnmountTimers_NotCleared(d) == timers[d]

\* The unmount effect: if (closeTimerRef.current !== null) clearTimeout(closeTimerRef.current)
UnmountTimers(d) ==
    IF closeTimerRef[d] # NullRef THEN clearTimeout(timers[d], closeTimerRef[d]) ELSE timers[d]

\* The parent unmounts the instance: every effect is cleaned up, and the
\* instance's props, state and ref are gone with it.
Unmount(d) ==
    LET unlocked == IF lockHeld[d] THEN unlockScroll(Lock) ELSE Lock
    IN  /\ mounted[d]
        /\ mounted' = [mounted EXCEPT ![d] = FALSE]
        /\ microtasks' = Cancel(microtasks, d)
        /\ timers' = [timers EXCEPT ![d] = UnmountTimers(d)]
        /\ lockHeld' = [lockHeld EXCEPT ![d] = FALSE]
        /\ activeDrawerCount' = unlocked.count
        /\ drawerOpenClass' = unlocked.class
        /\ lateFire' = [lateFire EXCEPT ![d] = IF timers[d] # <<>> THEN "pending" ELSE "none"]
        /\ userClose' = [userClose EXCEPT ![d] = FALSE]
        /\ invoked' = NoDrawer
        /\ open' = [open EXCEPT ![d] = FALSE]
        /\ isVisible' = [isVisible EXCEPT ![d] = FALSE]
        /\ isClosing' = [isClosing EXCEPT ![d] = FALSE]
        /\ closeTimerRef' = [closeTimerRef EXCEPT ![d] = NullRef]
        /\ UNCHANGED notDrawer

\* Mutant of EffectNotifiesParent: the effect's close calls onClose too.
EffectNotifiesParent_Always == TRUE

\* The open effect closes with startClose(false).
EffectNotifiesParent == FALSE

\* The first queued microtask runs.
RunMicrotask ==
    /\ microtasks # <<>>
    /\ LET m == Head(microtasks)
           d == m.drawer
           rest == Tail(microtasks)
       IN  IF m.kind = "show"
           THEN Commit(d, FALSE, open[d], FALSE, TRUE, FALSE,
                       closeTimerRef[d], timers[d], rest)
           ELSE startClose(d, EffectNotifiesParent, rest)
    /\ UNCHANGED <<lateFire, userClose>>
    /\ invoked' = NoDrawer

\* Escape is pressed: the keydown listener of every open instance calls
\* handleClose.  No dependency of an effect changes.
PressEscape ==
    LET heard == {d \in Drawers : mounted[d] /\ open[d]}
        started == {d \in heard : closeTimerRef[d] = NullRef}
    IN  /\ TaskMayStart
        /\ heard # {}
        /\ isClosing' = [d \in Drawers |-> d \in started \/ isClosing[d]]
        /\ closeTimerRef' =
              [d \in Drawers |-> IF d \in started THEN FreshHandle(timers[d]) ELSE closeTimerRef[d]]
        /\ timers' =
              [d \in Drawers |->
                  IF d \in started
                  THEN Append(timers[d], [handle |-> FreshHandle(timers[d]), notifyParent |-> TRUE])
                  ELSE timers[d]]
        /\ userClose' = [d \in Drawers |-> userClose[d] \/ (d \in heard /\ isVisible[d])]
        /\ invoked' = NoDrawer
        /\ UNCHANGED <<mounted, open, isVisible, lockHeld, microtasks, activeDrawerCount,
                       drawerOpenClass, lateFire>>
        /\ UNCHANGED notDrawer

\* handleClose from a click on the overlay or on the close button.
ClickClose(d) ==
    /\ TaskMayStart
    /\ mounted[d]
    /\ open[d] \/ isVisible[d]
    /\ startClose(d, TRUE, microtasks)
    /\ userClose' = [userClose EXCEPT ![d] = @ \/ (open[d] /\ isVisible[d])]
    /\ invoked' = NoDrawer
    /\ UNCHANGED lateFire

\* A pending close timer fires.  Its onClose() lets the parent set open to
\* false in the same batch, or not.
TimerFires(d) ==
    /\ TaskMayStart
    /\ \E i \in DOMAIN timers[d] :
       LET t == timers[d][i]
           left == clearTimeout(timers[d], t.handle)
       IN  IF mounted[d]
           THEN /\ \E o \in (IF t.notifyParent THEN {open[d], FALSE} ELSE {open[d]}) :
                      Commit(d, FALSE, o, FALSE, FALSE, FALSE, NullRef, left, microtasks)
                /\ userClose' = [userClose EXCEPT ![d] = @ /\ ~t.notifyParent]
                /\ invoked' = IF t.notifyParent THEN d ELSE NoDrawer
                /\ UNCHANGED lateFire
           ELSE /\ timers' = [timers EXCEPT ![d] = left]
                /\ invoked' = IF t.notifyParent THEN d ELSE NoDrawer
                /\ UNCHANGED userClose
                /\ lateFire' = [lateFire EXCEPT ![d] =
                                   IF t.notifyParent THEN "onClose" ELSE "setState"]
                /\ UNCHANGED <<mounted, open, isVisible, isClosing, closeTimerRef,
                               lockHeld, microtasks, activeDrawerCount, drawerOpenClass>>
                /\ UNCHANGED notDrawer

DrawerInit ==
    /\ mounted = [d \in Drawers |-> FALSE]
    /\ open = [d \in Drawers |-> FALSE]
    /\ isVisible = [d \in Drawers |-> FALSE]
    /\ isClosing = [d \in Drawers |-> FALSE]
    /\ closeTimerRef = [d \in Drawers |-> NullRef]
    /\ lockHeld = [d \in Drawers |-> FALSE]
    /\ timers = [d \in Drawers |-> <<>>]
    /\ microtasks = <<>>
    /\ activeDrawerCount = 0
    /\ drawerOpenClass = FALSE
    /\ lateFire = [d \in Drawers |-> "none"]
    /\ userClose = [d \in Drawers |-> FALSE]
    /\ invoked = NoDrawer

DrawerIdle == DrawerInit

DrawerNext ==
    \/ \E d \in Drawers, o \in BOOLEAN : Mount(d, o)
    \/ \E d \in Drawers, o, newOnClose \in BOOLEAN : ParentRender(d, o, newOnClose)
    \/ \E d \in Drawers : Unmount(d)
    \/ RunMicrotask
    \/ PressEscape
    \/ \E d \in Drawers : ClickClose(d)
    \/ \E d \in Drawers : TimerFires(d)

\* ------------------------------------------------------------------------
\* Drawer: properties
\* ------------------------------------------------------------------------

\* C8: once an instance is unmounted it has no pending close timer, also when
\* one was pending at the unmount, and no close timer has invoked onClose or
\* set the instance's state since the unmount.
C8_UnmountClearsTimer ==
    \A d \in Drawers :
        ~mounted[d] => timers[d] = <<>> /\ lateFire[d] \in {"none", "pending"}

\* An instance was unmounted while its close timer, one that would have
\* notified the parent, was pending; the other instance still has a timer.
C8_Witness ==
    \E d \in Drawers :
        /\ ~mounted[d]
        /\ lateFire[d] = "pending"
        /\ \E e \in Drawers \ {d} : mounted[e] /\ timers[e] # <<>>

\* C12: a close the user asks for while the instance is open and visible is
\* answered: as long as the instance stays mounted, onClose is called in the
\* end, whatever the parent renders in between.
C12_UserCloseNotifies == \A d \in Drawers : userClose[d] ~> ~userClose[d]

\* The mounted instances that are open or visible.
Locking == {d \in Drawers : mounted[d] /\ (open[d] \/ isVisible[d])}

\* C13: activeDrawerCount is the number of mounted instances that are open or
\* visible, it is never negative, and body and html carry the class
\* 'drawer-open' exactly when it is greater than zero.
C13_ScrollLockCounts ==
    /\ activeDrawerCount = Cardinality(Locking)
    /\ activeDrawerCount >= 0
    /\ drawerOpenClass <=> activeDrawerCount > 0

\* Two instances hold the lock: one is open and not yet visible, the other
\* was closed by the parent and is still visible.
C13_Witness ==
    /\ activeDrawerCount = 2
    /\ drawerOpenClass
    /\ \E d \in Drawers : mounted[d] /\ ~open[d] /\ isVisible[d]
    /\ \E d \in Drawers : mounted[d] /\ open[d] /\ ~isVisible[d]

\* C14: an instance has at most one close timer, the one closeTimerRef names,
\* whatever close triggers arrive while it is pending; and a step that calls
\* onClose is the firing of that one timer, which ends the close animation
\* and leaves no timer that could call onClose again.
C14_OneCloseTimer ==
    /\ [](\A d \in Drawers :
            /\ Len(timers[d]) <= 1
            /\ timers[d] # <<>> => closeTimerRef[d] = timers[d][1].handle)
    /\ [][\A d \in Drawers :
            invoked' = d /\ mounted[d] =>
                /\ Len(timers[d]) = 1
                /\ isClosing[d]
                /\ timers'[d] = <<>>
                /\ ~isClosing'[d]]_vars

\* The user's close is pending and the parent then set open to false: the
\* effect's startClose has run and there is still the one, notifying, timer.
C14_Witness ==
    \E d \in Drawers :
        /\ mounted[d]
        /\ ~open[d]
        /\ isVisible[d]
        /\ userClose[d]
        /\ microtasks = <<>>
        /\ Len(timers[d]) = 1
        /\ timers[d][1].notifyParent

\* The close animation the parent started: open is false, the instance is
\* visible and its timer does not notify.
ParentClosing(d) ==
    /\ mounted[d]
    /\ ~open[d]
    /\ isVisible[d]
    /\ timers[d] # <<>>
    /\ \A i \in DOMAIN timers[d] : ~timers[d][i].notifyParent

\* C15: once the parent has set open to false on a visible instance with no
\* user's close pending, and the queued startClose has run, the instance is
\* rendered in the closing state with its timer pending; the step in which
\* the timer fires, open being false still, leaves it not rendered
\* (isVisible false as well) and calls no onClose.
C15_ParentCloseIsSilent ==
    /\ [](\A d \in Drawers :
            (mounted[d] /\ ~open[d] /\ isVisible[d] /\ ~userClose[d] /\ microtasks = <<>>) =>
                ParentClosing(d) /\ isClosing[d])
    /\ [][\A d \in Drawers :
            (ParentClosing(d) /\ mounted'[d] /\ ~open'[d] /\ timers'[d] = <<>>) =>
                ~isVisible'[d] /\ ~isClosing'[d] /\ invoked' # d]_vars

\* The parent's close animation is over: the instance is mounted and not
\* rendered, and no onClose was called.
C15_Witness ==
    \E d \in Drawers :
        /\ mounted[d]
        /\ ~open[d]
        /\ ~isVisible[d]
        /\ ~isClosing[d]
        /\ timers[d] = <<>>
        /\ invoked = NoDrawer
        /\ lockHeld[d] = FALSE
        /\ \E e \in Drawers \ {d} : ParentClosing(e)

\* ------------------------------------------------------------------------
\* Stat tables and charts: loading, error, empty and data
\* ------------------------------------------------------------------------

\* An optional boolean prop: isLoading?: boolean, hasError?: boolean.
OptionalBooleans == {"undefined", "false", "true"}

\* if (isLoading), if (hasError)
Truthy(b) == b = "true"

\* The data prop.  A chart's is null or an object whose list (points, days)
\* may be missing; a table's is an array.
NullChart == [type |-> "null", hasList |-> FALSE, list |-> <<>>]

Chart(hasList, list) == [type |-> "object", hasList |-> hasList, list |-> list]

Table(list) == [type |-> "array", hasList |-> TRUE, list |-> list]

\* Lists of the request counts of their items.
RequestLists == UNION {[1..n -> 0..1] : n \in 0..MaxRows}

ChartData == {NullChart, Chart(FALSE, <<>>)} \union {Chart(TRUE, l) : l \in RequestLists}

TableData == {Table(l) : l \in RequestLists}

Props(dataSet) == [data : dataSet, isLoading : OptionalBooleans, hasError : OptionalBooleans]

\* const hasData = data && data.points && data.points.length > 0
hasData(data) == data.type # "null" /\ data.hasList /\ Len(data.list) > 0

\* Mutant of RequestTimeline: the error is looked at before the loading.
RequestTimeline_ErrorFirst(props) ==
    {"request-timeline-card", "timeline-header"} \union
    (IF Truthy(props.hasError) THEN {"timeline-error"}
     ELSE IF Truthy(props.isLoading) THEN {"timeline-loading"}
     ELSE IF ~hasData(props.data) THEN {"timeline-empty"}
     ELSE {"timeline-stats", "timeline-chart-container"})

RequestTimeline(props) ==
    {"request-timeline-card", "timeline-header"} \union
    (IF Truthy(props.isLoading) THEN {"timeline-loading"}
     ELSE IF Truthy(props.hasError) THEN {"timeline-error"}
     ELSE IF ~hasData(props.data) THEN {"timeline-empty"}
     ELSE {"timeline-stats", "timeline-chart-container"})

ActivityHeatmap(props) ==
    {"activity-heatmap-card", "heatmap-header"} \union
    (IF Truthy(props.isLoading) THEN {"heatmap-loading"}
     ELSE IF Truthy(props.hasError) THEN {"heatmap-error"}
     ELSE IF ~hasData(props.data) THEN {"heatmap-empty"}
     ELSE {"heatmap-legend", "heatmap-stats", "heatmap-container"})

ModelStatsTable(props) ==
    {"model-stats-card", "card-header"} \union
    (IF Truthy(props.isLoading) THEN {"card-loading"}
     ELSE IF Truthy(props.hasError) THEN {"card-error"}
     ELSE {"table-container", "stats-table"} \union
          (IF Len(props.data.list) = 0 THEN {"empty-row"} ELSE {"model-cell"}))

ProviderStatsTable(props) ==
    {"provider-stats-card", "card-header"} \union
    (IF Truthy(props.isLoading) THEN {"card-loading"}
     ELSE IF Truthy(props.hasError) THEN {"card-error"}
     ELSE {"table-container", "stats-table"} \union
          (IF Len(props.data.list) = 0 THEN {"empty-row"} ELSE {"provider-cell"}))

Rendered(component, props, view) ==
    /\ statComponent' = component
    /\ statProps' = props
    /\ statView' = view

RenderRequestTimeline ==
    /\ \E props \in Props(ChartData) :
          Rendered("RequestTimeline", props, RequestTimeline(props))
    /\ UNCHANGED notStats

RenderActivityHeatmap ==
    /\ \E props \in Props(ChartData) :
          Rendered("ActivityHeatmap", props, ActivityHeatmap(props))
    /\ UNCHANGED notStats

RenderModelStatsTable ==
    /\ \E props \in Props(TableData) :
          Rendered("ModelStatsTable", props, ModelStatsTable(props))
    /\ UNCHANGED notStats

RenderProviderStatsTable ==
    /\ \E props \in Props(TableData) :
          Rendered("ProviderStatsTable", props, ProviderStatsTable(props))
    /\ UNCHANGED notStats

StatsInit ==
    /\ statComponent = "none"
    /\ statProps = [data |-> NullChart, isLoading |-> "undefined", hasError |-> "undefined"]
    /\ statView = {}

StatsIdle == StatsInit

StatsNext ==
    \/ RenderRequestTimeline
    \/ RenderActivityHeatmap
    \/ RenderModelStatsTable
    \/ RenderProviderStatsTable

\* ------------------------------------------------------------------------
\* Stat tables and charts: properties
\* ------------------------------------------------------------------------

\* The display states whose elements are in a view.
DisplayStates(view) ==
    {"loading" : c \in view \intersect {"timeline-loading", "heatmap-loading", "card-loading"}}
    \union {"error" : c \in view \intersect {"timeline-error", "heatmap-error", "card-error"}}
    \union {"empty" : c \in view \intersect {"timeline-empty", "heatmap-empty", "empty-row"}}
    \union {"data" : c \in view \intersect
                {"timeline-chart-container", "heatmap-container", "model-cell", "provider-cell"}}

\* The data list is null or empty.
NoItems(data) == data.type = "null" \/ ~data.hasList \/ data.list = <<>>

\* C9: whatever isLoading, hasError and data are, each of the four components
\* renders exactly one display state: loading when isLoading is true, else
\* error when hasError is true, else empty when the data list is null or
\* empty, else data.
C9_OneDisplayState ==
    statComponent # "none" =>
        DisplayStates(statView) =
            {IF statProps.isLoading = "true" THEN "loading"
             ELSE IF statProps.hasError = "true" THEN "error"
             ELSE IF NoItems(statProps.data) THEN "empty"
             ELSE "data"}

\* A chart is rendered as loading although it has an error and a data list
\* with items.
C9_Witness ==
    /\ statComponent = "RequestTimeline"
    /\ statProps.isLoading = "true"
    /\ statProps.hasError = "true"
    /\ ~NoItems(statProps.data)
    /\ "timeline-loading" \in statView

\* ------------------------------------------------------------------------
\* ActivityHeatmap: the days grouped into weeks
\* ------------------------------------------------------------------------

\* A date 'YYYY-MM-DD' is the number of its day, 1970-01-01 being day 0, and
\* the date '' of a padding cell is EmptyDate.
EmptyDate == -1

\* An ActivityHeatmapDay.
Day(date) == [date |-> date, requests |-> date % 3, total_tokens |-> date]

\* { date: '', requests: -1, total_tokens: 0 }
PaddingDay == [date |-> EmptyDate, requests |-> -1, total_tokens |-> 0]

\* new Date(`${date}T00:00:00Z`).getUTCDay(): 1970-01-01 was a Thursday.
getUTCDay(date) == (date + 4) % 7

\* new Date(date).getDay(): the date-only string is midnight UTC, which a host
\* behind UTC sees as an hour of the day before.
getDay(date, west) == IF west THEN (date + 3) % 7 ELSE (date + 4) % 7

\* The day of the week a file's useMemo reads off a date.
dayOfWeek(source, date, west) ==
    IF source = "ActivityHeatmap.tsx" THEN getUTCDay(date) ELSE getDay(date, west)

\* data.days.forEach from the i-th day on: currentWeek.push(day), and a day
\* read as a Saturday ends the week.
RECURSIVE forEachDay(_, _, _, _, _, _)
forEachDay(source, days, west, i, acc, currentWeek) ==
    IF i > Len(days) THEN [weeks |-> acc, currentWeek |-> currentWeek]
    ELSE LET pushed == Append(currentWeek, days[i])
         IN  IF dayOfWeek(source, days[i].date, west) = 6
             THEN forEachDay(source, days, west, i + 1, Append(acc, pushed), <<>>)
             ELSE forEachDay(source, days, west, i + 1, acc, pushed)

\* while (currentWeek.length < 7) currentWeek.push(padding)
PadWeek(week) ==
    IF Len(week) < 7 THEN week \o [i \in 1..(7 - Len(week)) |-> PaddingDay] ELSE week

\* The weeks of the useMemo.
weeks(source, data, west) ==
    IF ~hasData(data) THEN <<>>
    ELSE LET startDayOfWeek == dayOfWeek(source, data.list[1].date, west)
             grouped == forEachDay(source, data.list, west, 1, <<>>,
                                   [i \in 1..startDayOfWeek |-> PaddingDay])
         IN  IF Len(grouped.currentWeek) > 0
             THEN Append(grouped.weeks, PadWeek(grouped.currentWeek))
             ELSE grouped.weeks

\* The first dates of the lists: 1970-01-04, a Sunday, to 1970-01-10.
FirstDates == 3..9

\* A list of n days from a first date on, consecutive when g is 0 and with
\* one date left out after the g-th day otherwise.
DaysFrom(first, n, g) == [i \in 1..n |-> Day(first + i - 1 + IF g > 0 /\ i > g THEN 1 ELSE 0)]

DayLists == {DaysFrom(first, n, 0) : first \in FirstDates, n \in 0..MaxDays}

GappedDayLists == {DaysFrom(first, n, 1) : first \in FirstDates, n \in 2..MaxDays}

HeatmapData ==
    {NullChart, Chart(FALSE, <<>>)} \union {Chart(TRUE, l) : l \in DayLists \union GappedDayLists}

MIN_CELL_SIZE == 6

DEFAULT_CELL_SIZE == 10

\* useState(4)
InitialCellGap == 4

\* The widths the container takes.
Widths == {0, 120, 300}

Max(a, b) == IF a > b THEN a ELSE b

\* updateSizing(): the cell size and gap it sets for colCount weeks.
updateSizing(width, isSmall, colCount) ==
    LET gap == IF isSmall THEN 2 ELSE 4
        reserved == 24
        available == Max(width - reserved, 0)
        totalGap == Max(colCount - 1, 0) * gap
    IN  IF colCount = 0 \/ width <= 0
        THEN [cellSize |-> DEFAULT_CELL_SIZE, cellGap |-> gap]
        ELSE [cellSize |-> Max(MIN_CELL_SIZE, (available - totalGap) \div colCount),
              cellGap |-> gap]

\* A render and its commit.  The file with getUTCDay() has the sizing effect,
\* which runs at the mount and when weeks.length changes; its element is the
\* container, rendered with the data.  The other file sizes nothing.
HeatmapRendered(source, data, west) ==
    LET ws == weeks(source, data, west)
        sizes == source = "ActivityHeatmap.tsx"
        mount == heatSource # source
        effect == sizes /\ (mount \/ Len(ws) # Len(heatWeeks))
        el == hasData(data)
        sized == updateSizing(heatWidth, heatSmall, Len(ws))
    IN  /\ heatSource' = source
        /\ heatData' = data
        /\ heatWest' = west
        /\ heatWeeks' = ws
        /\ heatObserving' = IF effect THEN el ELSE sizes /\ heatObserving
        /\ cellSize' = IF effect /\ el THEN sized.cellSize
                       ELSE IF mount THEN DEFAULT_CELL_SIZE ELSE cellSize
        /\ cellGap' = IF effect /\ el THEN sized.cellGap
                      ELSE IF mount THEN InitialCellGap ELSE cellGap
        /\ UNCHANGED <<heatWidth, heatSmall, burstEvents, burstRuns>>

\* A resize notification calls updateSizing() at once.
Notified(width, isSmall) ==
    LET sized == updateSizing(width, isSmall, Len(heatWeeks))
    IN  /\ burstEvents < MaxBurst
        /\ heatWidth' = width
        /\ heatSmall' = isSmall
        /\ cellSize' = sized.cellSize
        /\ cellGap' = sized.cellGap
        /\ burstEvents' = burstEvents + 1
        /\ burstRuns' = burstRuns + 1
        /\ UNCHANGED <<heatSource, heatData, heatWest, heatWeeks, heatObserving>>

\* new ResizeObserver(() => updateSizing()): the container has another width.
ResizeObserverCallback ==
    /\ heatObserving
    /\ \E width \in Widths : Notified(width, heatSmall)
    /\ UNCHANGED notHeat

\* onResize: the window, and with it the container and the media query, changed.
WindowResize ==
    /\ heatObserving
    /\ \E width \in Widths, isSmall \in BOOLEAN : Notified(width, isSmall)
    /\ UNCHANGED notHeat

\* The notifications stop for a while: the burst is over.  Nothing is
\* scheduled, so nothing runs.
BurstEnds ==
    /\ burstEvents > 0
    /\ burstEvents' = 0
    /\ burstRuns' = 0
    /\ UNCHANGED <<heatSource, heatData, heatWest, heatWeeks, heatObserving, heatWidth,
                   heatSmall, cellSize, cellGap>>
    /\ UNCHANGED notHeat

\* src/components/analytics/ActivityHeatmap.tsx renders.
RenderHeatmap ==
    /\ \E data \in HeatmapData, west \in BOOLEAN :
          HeatmapRendered("ActivityHeatmap.tsx", data, west)
    /\ UNCHANGED notHeat

\* The ActivityHeatmap of the file that reads the dates with getDay() renders.
RenderHeatmapLocal ==
    /\ \E data \in HeatmapData, west \in BOOLEAN : HeatmapRendered("getDay", data, west)
    /\ UNCHANGED notHeat

HeatInit ==
    /\ heatSource = "none"
    /\ heatData = NullChart
    /\ heatWest = FALSE
    /\ heatWeeks = <<>>
    /\ heatObserving = FALSE
    /\ heatWidth \in Widths
    /\ heatSmall \in BOOLEAN
    /\ cellSize = DEFAULT_CELL_SIZE
    /\ cellGap = InitialCellGap
    /\ burstEvents = 0
    /\ burstRuns = 0

HeatIdle == HeatInit /\ heatWidth = 0 /\ heatSmall = FALSE

HeatNext ==
    \/ RenderHeatmap
    \/ RenderHeatmapLocal

\* The data of the renders between resizes: none, and 1 to MaxDays days from
\* a Sunday on.
SizingData == {NullChart} \union {Chart(TRUE, DaysFrom(3, n, 0)) : n \in 1..MaxDays}

RenderSized ==
    /\ \E data \in SizingData : HeatmapRendered("ActivityHeatmap.tsx", data, FALSE)
    /\ UNCHANGED notHeat

SizingNext ==
    \/ RenderSized
    \/ ResizeObserverCallback
    \/ WindowResize
    \/ BurstEnds

\* ------------------------------------------------------------------------
\* ActivityHeatmap: properties
\* ------------------------------------------------------------------------

\* The weekday of a date, Sunday being 0.
Weekday(date) == (date + 4) % 7

IsPadding(cell) == cell.requests = -1

\* The dates ascend by one day.
ConsecutiveDates(days) == \A i \in 1..(Len(days) - 1) : days[i + 1].date = days[i].date + 1

\* The cells of the weeks read week by week.
RECURSIVE Cells(_)
Cells(ws) == IF ws = <<>> THEN <<>> ELSE Head(ws) \o Cells(Tail(ws))

\* C10: for a non-empty list of days with consecutive ascending dates, every
\* week has 7 cells, the cell at index i is a padding cell or a day whose
\* weekday is i, padding cells are only before the first day in the first
\* week and after the last day in the last week, and the other cells read
\* week by week are the days of the list in its order.
C10_WeekBucketing ==
    (heatSource # "none" /\ hasData(heatData) /\ ConsecutiveDates(heatData.list)) =>
        LET cells == Cells(heatWeeks)
            days == SelectSeq(cells, LAMBDA c : ~IsPadding(c))
            first == CHOOSE i \in 1..Len(cells) :
                        ~IsPadding(cells[i]) /\ \A j \in 1..(i - 1) : IsPadding(cells[j])
        IN  /\ \A w \in 1..Len(heatWeeks) : Len(heatWeeks[w]) = 7
            /\ \A w \in 1..Len(heatWeeks) : \A i \in 1..Len(heatWeeks[w]) :
                  IsPadding(heatWeeks[w][i]) \/ Weekday(heatWeeks[w][i].date) = i - 1
            /\ days = heatData.list
            /\ first <= 7
            /\ \A i \in 1..Len(cells) :
                  IsPadding(cells[i]) => i < first \/ i >= first + Len(days)
            /\ first + Len(days) > Len(cells) - 7

\* C11: the resize notifications of a burst, from the ResizeObserver and
\* from the window, cause one recomputation of the cell sizing after the
\* burst and not one for each notification.
C11_ResizeDebounced == burstEvents > 1 => burstRuns <= 1

\* ------------------------------------------------------------------------
\* ContentTransition
\* ------------------------------------------------------------------------

\* The values of transitionKey.
Keys == 1..NumKeys

\* The children of a render: the content of a key, a new node at each render
\* of the parent that changes it.
Nodes == [of : Keys, rev : 0..1]

\* getOrder: absent, or the function that orders the keys by their number.
Orders == {"none", "byIndex"}

\* The values of travel.
Travels == {36, 48}

\* resolveOrderIndex(key): NoIndex for null.
NoIndex == -1

resolveOrderIndex(getOrder, key) == IF getOrder = "none" THEN NoIndex ELSE key - 1

\* nextDirection
nextDirection(getOrder, fromKey, toKey) ==
    LET fromIndex == resolveOrderIndex(getOrder, fromKey)
        toIndex == resolveOrderIndex(getOrder, toKey)
    IN  IF fromIndex = NoIndex \/ toIndex = NoIndex \/ fromIndex = toIndex THEN "forward"
        ELSE IF toIndex > fromIndex THEN "forward"
        ELSE "backward"

Layer(key, node, status) == [key |-> key, node |-> node, status |-> status]

\* Mutant of KeyEffect: a key change is taken up during an animation.
KeyEffect_NotWaiting(k, c, getOrder, animating, mq) ==
    IF k = prevKeyRef
    THEN [prevKey |-> prevKeyRef, prevChildren |-> c, microtasks |-> mq]
    ELSE [prevKey |-> k, prevChildren |-> c,
          microtasks |-> Append(mq, [direction |-> nextDirection(getOrder, prevKeyRef, k),
                                     layers |-> <<Layer(prevKeyRef, prevChildrenRef, "exiting"),
                                                  Layer(k, c, "current")>>])]

\* The body of the key effect for the props (k, c, getOrder) and the state
\* isAnimating = animating: the refs and the microtask queue after it.
KeyEffect(k, c, getOrder, animating, mq) ==
    IF k = prevKeyRef
    THEN [prevKey |-> prevKeyRef, prevChildren |-> c, microtasks |-> mq]
    ELSE IF animating
    THEN [prevKey |-> prevKeyRef, prevChildren |-> prevChildrenRef, microtasks |-> mq]
    ELSE [prevKey |-> k, prevChildren |-> c,
          microtasks |-> Append(mq, [direction |-> nextDirection(getOrder, prevKeyRef, k),
                                     layers |-> <<Layer(prevKeyRef, prevChildrenRef, "exiting"),
                                                  Layer(k, c, "current")>>])]

\* The commit of a render with the props (k, c, getOrder, t), a getOrder that
\* is the function of the last render or a new one, and the state (animating,
\* direction, ls), the timeline being tl: the effects whose dependencies
\* changed are cleaned up and run.  The cleanup of the key effect cancels its
\* queued callback, which would return at `if (cancelled) return`; the layout
\* effect's kills the timeline, and its body starts one while animating.
CtCommit(k, c, getOrder, newGetOrder, t, animating, direction, ls, tl, mq) ==
    LET keyEffect == \/ k # transitionKey
                     \/ c # children
                     \/ getOrder # ctGetOrder
                     \/ newGetOrder
                     \/ animating # isAnimating
        layoutEffect == \/ animating # isAnimating
                        \/ t # travel
                        \/ direction # transitionDirection
        after == IF keyEffect THEN KeyEffect(k, c, getOrder, animating, <<>>)
                 ELSE [prevKey |-> prevKeyRef, prevChildren |-> prevChildrenRef, microtasks |-> mq]
    IN  /\ transitionKey' = k
        /\ children' = c
        /\ ctGetOrder' = getOrder
        /\ travel' = t
        /\ isAnimating' = animating
        /\ transitionDirection' = direction
        /\ layers' = ls
        /\ prevKeyRef' = after.prevKey
        /\ prevChildrenRef' = after.prevChildren
        /\ ctMicrotasks' = after.microtasks
        /\ timeline' = IF layoutEffect THEN (IF animating THEN "started" ELSE "none") ELSE tl

\* The parent renders the component with other props.
CtRender ==
    /\ \E k \in Keys, rev \in 0..1, getOrder \in Orders, newGetOrder \in BOOLEAN, t \in Travels :
          LET c == [of |-> k, rev |-> rev]
          IN  /\ <<k, c, getOrder, t>> # <<transitionKey, children, ctGetOrder, travel>>
                    \/ newGetOrder
              /\ CtCommit(k, c, getOrder, newGetOrder, t, isAnimating, transitionDirection,
                          layers, timeline, ctMicrotasks)
    /\ UNCHANGED notTransition

\* The queued callback runs: the direction, the two layers and isAnimating
\* are set in one batch.
CtRunMicrotask ==
    /\ ctMicrotasks # <<>>
    /\ LET m == Head(ctMicrotasks)
       IN  CtCommit(transitionKey, children, ctGetOrder, FALSE, travel, TRUE, m.direction,
                    m.layers, timeline, Tail(ctMicrotasks))
    /\ UNCHANGED notTransition

\* The timeline plays on.
TimelineAdvances ==
    /\ ctMicrotasks = <<>>
    /\ timeline = "started"
    /\ timeline' = "midway"
    /\ UNCHANGED <<transitionKey, children, ctGetOrder, travel, isAnimating,
                   transitionDirection, layers, prevKeyRef, prevChildrenRef, ctMicrotasks>>
    /\ UNCHANGED notTransition

\* Mutant of onCompleteLayers: the exiting layer is kept.
onCompleteLayers_Kept(prev) == prev

\* prev.filter((l) => l.status === 'current')
onCompleteLayers(prev) == SelectSeq(prev, LAMBDA l : l.status = "current")

\* The timeline's onComplete.
TimelineCompletes ==
    /\ ctMicrotasks = <<>>
    /\ timeline # "none"
    /\ CtCommit(transitionKey, children, ctGetOrder, FALSE, travel, FALSE, transitionDirection,
                onCompleteLayers(layers), timeline, ctMicrotasks)
    /\ UNCHANGED notTransition

\* The mount: the initial state and refs are the first props.
TransitionInit ==
    /\ transitionKey \in Keys
    /\ children \in {c \in Nodes : c.of = transitionKey /\ c.rev = 0}
    /\ ctGetOrder \in Orders
    /\ travel = 36
    /\ isAnimating = FALSE
    /\ transitionDirection = "forward"
    /\ layers = <<Layer(transitionKey, children, "current")>>
    /\ prevKeyRef = transitionKey
    /\ prevChildrenRef = children
    /\ ctMicrotasks = <<>>
    /\ timeline = "none"

TransitionIdle == TransitionInit /\ transitionKey = 1 /\ ctGetOrder = "none"

TransitionNext ==
    \/ CtRender
    \/ CtRunMicrotask
    \/ TimelineAdvances
    \/ TimelineCompletes

\* const layersToRender
layersToRender ==
    [i \in 1..Len(layers) |->
        IF layers[i].status = "current" /\ layers[i].key = transitionKey
        THEN [layers[i] EXCEPT !.node = children]
        ELSE layers[i]]

\* ------------------------------------------------------------------------
\* ContentTransition: properties
\* ------------------------------------------------------------------------

LayersWith(status) == {i \in 1..Len(layers) : layers[i].status = status}

\* C16: while isAnimating is and stays true, no step changes the layers or
\* the direction, whatever transitionKey it brings, and the timeline only
\* plays on, unless travel changed; so a key that changes during an animation
\* changes none of them before the animation has completed.
C16_KeyIgnoredWhileAnimating ==
    [][(isAnimating /\ isAnimating') =>
          /\ layers' = layers
          /\ transitionDirection' = transitionDirection
          /\ (travel' = travel) =>
                 \/ timeline' = timeline
                 \/ timeline = "started" /\ timeline' = "midway"
          /\ ctMicrotasks' = <<>>]_vars

\* An animation is half played and transitionKey has changed since it began:
\* the current layer and prevKeyRef are of the key before.
C16_Witness ==
    /\ isAnimating
    /\ timeline = "midway"
    /\ prevKeyRef # transitionKey
    /\ \E i \in LayersWith("current") : layers[i].key = prevKeyRef
    /\ Len(layers) = 2

\* C17: when no callback is queued and no animation runs, the layer with
\* status 'current' has the latest transitionKey as its key and is rendered
\* with the latest children.
C17_SettlesOnLatestKey ==
    (ctMicrotasks = <<>> /\ ~isAnimating) =>
        \E i \in LayersWith("current") :
            /\ layers[i].key = transitionKey
            /\ layersToRender[i].node = children

\* C18: the layers hold exactly one 'current' layer and at most one 'exiting'
\* layer, an 'exiting' layer only while isAnimating is true; and the step
\* that completes the animation sets isAnimating to false and leaves no
\* 'exiting' layer.
C18_LayerStatuses ==
    /\ [](/\ Cardinality(LayersWith("current")) = 1
          /\ Cardinality(LayersWith("exiting")) <= 1
          /\ LayersWith("exiting") # {} => isAnimating)
    /\ [][(timeline # "none" /\ timeline' = "none") =>
             /\ ~isAnimating'
             /\ Len(layers) = 2
             /\ {i \in 1..Len(layers') : layers'[i].status = "exiting"} = {}]_vars

\* An animation has completed: the one layer is the current layer that the
\* queued callback had set beside the exiting one, and nothing animates.
C18_Witness ==
    /\ ~isAnimating
    /\ timeline = "none"
    /\ ctMicrotasks = <<>>
    /\ Len(layers) = 1
    /\ layers[1].status = "current"
    /\ layers[1].node.rev = 1

\* ------------------------------------------------------------------------
\* Specifications: one per component, the others idle
\* ------------------------------------------------------------------------

JsonSpecInit == JsonInit /\ PageIdle /\ ThemeIdle /\ DrawerIdle /\ StatsIdle /\ HeatIdle /\ TransitionIdle

SpecJson == JsonSpecInit /\ [][JsonNext]_vars

PageSpecInit == PageInit /\ JsonIdle /\ ThemeIdle /\ DrawerIdle /\ StatsIdle /\ HeatIdle /\ TransitionIdle

SpecPagination == PageSpecInit /\ [][PageNext]_vars

ThemeSpecInit == ThemeInit /\ JsonIdle /\ PageIdle /\ DrawerIdle /\ StatsIdle /\ HeatIdle /\ TransitionIdle

SpecTheme == ThemeSpecInit /\ [][ThemeNext]_vars

DrawerSpecInit == DrawerInit /\ JsonIdle /\ PageIdle /\ ThemeIdle /\ StatsIdle /\ HeatIdle /\ TransitionIdle

SpecDrawer == DrawerSpecInit /\ [][DrawerNext]_vars

\* Queued microtasks run, and a timer that stays set fires.
DrawerFairness ==
    /\ WF_vars(RunMicrotask)
    /\ \A d \in Drawers : SF_vars(TimerFires(d))

SpecDrawerFair == DrawerSpecInit /\ [][DrawerNext]_vars /\ DrawerFairness

StatsSpecInit == StatsInit /\ JsonIdle /\ PageIdle /\ ThemeIdle /\ DrawerIdle /\ HeatIdle /\ TransitionIdle

SpecStats == StatsSpecInit /\ [][StatsNext]_vars

HeatSpecInit == HeatIdle /\ JsonIdle /\ PageIdle /\ ThemeIdle /\ DrawerIdle /\ StatsIdle /\ TransitionIdle

SpecHeatmap == HeatSpecInit /\ [][HeatNext]_vars

SizingSpecInit == HeatInit /\ JsonIdle /\ PageIdle /\ ThemeIdle /\ DrawerIdle /\ StatsIdle /\ TransitionIdle

SpecSizing == SizingSpecInit /\ [][SizingNext]_vars

TransitionSpecInit == TransitionInit /\ JsonIdle /\ PageIdle /\ ThemeIdle /\ DrawerIdle /\ StatsIdle /\ HeatIdle

SpecTransition == TransitionSpecInit /\ [][TransitionNext]_vars

====
